---- MODULE Spec2Model ----
(***************************************************************************)
(* Legal-HiRAG: the document parser (src/src/core/document_parser.py) and  *)
(* the hierarchical clustering (src/src/core/clustering.py) as state       *)
(* machines.                                                               *)
(*                                                                         *)
(* A line of text is a sequence of tokens.  A token stands for one         *)
(* character class of the regular expressions of the parser: a keyword     *)
(* ("PHAN", "CHUONG", "MUC", "Dieu", "THU", written without diacritics),   *)
(* a roman digit ("I"), a decimal digit ("1", "2"), a letter, a separator  *)
(* (":", ".", ")") or white space ("sp").  A text is the list of lines     *)
(* that text.split("\n") yields, so it always has at least one line.       *)
(***************************************************************************)
EXTENDS Integers, Sequences, FiniteSets, TLC

VARIABLES
    text,              \* parse_document: text.split("\n")
    document_id,       \* parse_document: document_id argument
    pc,                \* position of the running call
    i,                 \* _extract_provisions: number of lines consumed
    provisions,        \* _extract_provisions: provisions (later document.provisions)
    current_provision, \* _extract_provisions: current_provision
    content_buffer,    \* _extract_provisions: content_buffer
    j,                 \* _build_hierarchy: number of provisions processed
    provision_data,    \* _build_hierarchy: the provision_data dicts, by creation order
    hierarchy,         \* _build_hierarchy: hierarchy, id -> position in provision_data
    parent_stack,      \* _build_hierarchy: parent_stack, positions in provision_data
    history,           \* the documents returned so far, in call order
    entities,          \* perform_clustering: entities
    legal_provisions,  \* perform_clustering: provisions
    min_cluster_size,  \* LegalHierarchicalClustering.min_cluster_size
    structure_clusters,\* perform_clustering: structure_clusters, lists of positions in entities
    group,             \* perform_clustering: position of structure_cluster in the loop
    embeddings,        \* _get_entity_embeddings: embeddings
    final_clusters,    \* perform_clustering: final_clusters, lists of positions in entities
    outcomes,          \* perform_clustering: how each structure_cluster so far left the loop
    legal_similarity,    \* _cluster_with_legal_context: legal_similarity
    semantic_similarity, \* _cluster_with_legal_context: semantic_similarity
    combined_similarity, \* _cluster_with_legal_context: combined_similarity
    distance_matrix,     \* _cluster_with_legal_context: distance_matrix
    n_samples,         \* cluster count selector: number of rows of the matrix
    max_clusters,      \* cluster count selector: max_clusters argument
    scores,            \* cluster count selector: inertias or bic_scores
    optimal_clusters,  \* cluster count selector: returned value
    summary_clusters,  \* get_cluster_summary: clusters argument
    summary,           \* get_cluster_summary: the dict returned
    tokens,            \* _split_text_by_tokens: tokens argument
    max_chunk_tokens,  \* LegalChunker.max_chunk_tokens
    overlap_tokens,    \* LegalChunker.overlap_tokens
    start_idx,         \* _split_text_by_tokens: start_idx
    chunks,            \* _split_text_by_tokens: chunks, as lists of tokens
    prompt,            \* _call_llm: prompt argument
    retry_count,       \* _call_llm: retry_count
    completions,       \* the calls of completion so far and how each ended
    sleeps,            \* the calls of asyncio.sleep so far
    response           \* _call_llm: the string returned

parseVars == <<text, document_id, pc, i, provisions, current_provision,
               content_buffer, j, provision_data, hierarchy, parent_stack, history>>

clusterVars == <<entities, legal_provisions, min_cluster_size, structure_clusters,
                 group, embeddings, final_clusters, outcomes>>

selectVars == <<n_samples, max_clusters, scores, optimal_clusters>>

matrixVars == <<legal_similarity, semantic_similarity, combined_similarity,
                distance_matrix>>

summaryVars == <<summary_clusters, summary>>

\* the variables of the operations that stand apart from the parsing and the
\* clustering of a document
chunkVars == <<tokens, max_chunk_tokens, overlap_tokens, start_idx, chunks>>

llmVars == <<prompt, retry_count, completions, sleeps, response>>

otherVars == <<summaryVars, chunkVars, llmVars>>

\* what the parser does not touch
notParseVars == <<clusterVars, selectVars, matrixVars, otherVars>>

\* what perform_clustering does not touch
notClusterVars == <<text, document_id, i, provisions, current_provision,
                    content_buffer, j, provision_data, hierarchy, parent_stack,
                    history, selectVars, matrixVars, otherVars>>

\* what the cluster count selectors do not touch
notSelectVars == <<text, document_id, i, provisions, current_provision,
                   content_buffer, j, provision_data, hierarchy, parent_stack,
                   history, clusterVars, matrixVars, otherVars>>

vars == <<parseVars, clusterVars, selectVars, matrixVars, otherVars>>

None == "None"

-----------------------------------------------------------------------------
(* Bounds *)

\* the longest text of a single call, in lines
MaxLines == 4

\* the longest text that is parsed again, in lines
MaxLinesAgain == 3

\* the most rows of a matrix given to a cluster count selector
MaxSamples == 6

\* the largest max_clusters argument given to a cluster count selector
MaxMaxClusters == 6

\* inertias and BIC scores are drawn from 0..MaxScore
MaxScore == 2

\* the most records given to perform_clustering
MaxEntities == 4

\* the longest text whose records are grouped by legal structure, in lines
MaxStructureLines == 5

\* the most records given to _cluster_by_legal_structure alone
MaxRecords == 2

\* the most records of a group whose similarity matrices are computed
MaxGroupSize == 2

\* the longest line given to the matcher on its own, in tokens
MaxLineTokens == 4

\* the longest text whose title is looked for, in lines
MaxTitleLines == 11

-----------------------------------------------------------------------------
(* Tokens and lines *)

IsSpace(t)  == t \in {"sp", "nl"}
IsRoman(t)  == t \in {"I", "V", "X", "i", "v", "x"}
IsDigit(t)  == t \in {"1", "2"}
IsLetter(t) == t \in {"I", "V", "X", "i", "v", "x", "a", "t", "w",
                      "PHAN", "CHUONG", "MUC", "Dieu", "THU"}

\* re.IGNORECASE on the keyword literals of the patterns
Fold(t) ==
    CASE t \in {"PHAN", "phan"}     -> "PHAN"
      [] t \in {"CHUONG", "chuong"} -> "CHUONG"
      [] t \in {"MUC", "muc"}       -> "MUC"
      [] t \in {"Dieu", "dieu", "DIEU"} -> "DIEU"
      [] t \in {"THU", "thu"}       -> "THU"
      [] OTHER -> t

\* the characters a token stands for
TokText(t) == IF t = "sp" THEN " " ELSE t

RECURSIVE Concat(_)
Concat(s) == IF s = <<>> THEN "" ELSE TokText(Head(s)) \o Concat(Tail(s))

\* str.strip()
RECURSIVE LStrip(_)
LStrip(s) == IF s # <<>> /\ IsSpace(Head(s)) THEN LStrip(Tail(s)) ELSE s

RECURSIVE RStrip(_)
RStrip(s) ==
    IF s # <<>> /\ IsSpace(s[Len(s)]) THEN RStrip(SubSeq(s, 1, Len(s) - 1)) ELSE s

Strip(s) == RStrip(LStrip(s))

\* "\n".join(lines)
RECURSIVE Join(_)
Join(ls) ==
    IF ls = <<>> THEN <<>>
    ELSE IF Len(ls) = 1 THEN ls[1]
    ELSE ls[1] \o <<"nl">> \o Join(Tail(ls))

\* greedy runs \s*, [IVX]*, \d*, [A-Z...]* from position p: the first position
\* after the run
RECURSIVE SpaceEnd(_, _)
SpaceEnd(s, p) == IF p <= Len(s) /\ IsSpace(s[p]) THEN SpaceEnd(s, p + 1) ELSE p

RECURSIVE RomanEnd(_, _)
RomanEnd(s, p) == IF p <= Len(s) /\ IsRoman(s[p]) THEN RomanEnd(s, p + 1) ELSE p

RECURSIVE DigitEnd(_, _)
DigitEnd(s, p) == IF p <= Len(s) /\ IsDigit(s[p]) THEN DigitEnd(s, p + 1) ELSE p

RECURSIVE LetterEnd(_, _)
LetterEnd(s, p) == IF p <= Len(s) /\ IsLetter(s[p]) THEN LetterEnd(s, p + 1) ELSE p

At(s, p) == IF p >= 1 /\ p <= Len(s) THEN s[p] ELSE None

\* the tail "\s*(.+)" of the patterns from position p: the captured group, or
\* <<>> when the tail does not match.  "." takes white space too, so a tail of white space alone gives its
\* last character back to the group.
TitleAfterOptSpace(s, p) ==
    LET q == SpaceEnd(s, p) IN
    IF q <= Len(s) THEN SubSeq(s, q, Len(s))
    ELSE IF q > p THEN SubSeq(s, q - 1, Len(s))
    ELSE <<>>

\* the tail "\s+(.+)" of the khoan pattern
TitleAfterSpace(s, p) ==
    LET q == SpaceEnd(s, p) IN
    IF q = p THEN <<>>
    ELSE IF q <= Len(s) THEN SubSeq(s, q, Len(s))
    ELSE IF q - p >= 2 THEN SubSeq(s, q - 1, Len(s))
    ELSE <<>>

\* the result of a failed match (None in the code)
NoMatch == [matched |-> FALSE]

\* the triple (level, group 1, group 2) of a match; the group (.+) is never empty
Matched(level, numberToks, title) ==
    IF title = <<>> THEN NoMatch
    ELSE [matched |-> TRUE, level |-> level, number |-> Concat(numberToks),
          title |-> title]

\* KEYWORD\s+ : the position after the white space, or 0
AfterKeyword(s, kw) ==
    IF Len(s) >= 1 /\ Fold(s[1]) = kw /\ SpaceEnd(s, 2) > 2 THEN SpaceEnd(s, 2) ELSE 0

\* ([IVX]+)SEP from position q: the position of SEP, or 0
RomanThen(s, q, sep) ==
    IF q > 0 /\ RomanEnd(s, q) > q /\ At(s, RomanEnd(s, q)) = sep
    THEN RomanEnd(s, q) ELSE 0

\* (\d+)SEP from position q: the position of SEP, or 0
DigitsThen(s, q, sep) ==
    IF q > 0 /\ DigitEnd(s, q) > q /\ At(s, DigitEnd(s, q)) = sep
    THEN DigitEnd(s, q) ELSE 0

\* (THU\s+[A-Z...]+): from position q: the position of ":", or 0
OrdinalWordThen(s, q) ==
    IF q > 0 /\ Fold(At(s, q)) = "THU" /\ SpaceEnd(s, q + 1) > q + 1
    THEN LET w == SpaceEnd(s, q + 1)
             r == LetterEnd(s, w)
         IN IF r > w /\ At(s, r) = ":" THEN r ELSE 0
    ELSE 0

MatchPhan(s) ==
    LET q == AfterKeyword(s, "PHAN")
        r == IF RomanThen(s, q, ":") > 0 THEN RomanThen(s, q, ":")
             ELSE OrdinalWordThen(s, q)
    IN IF r = 0 THEN NoMatch
       ELSE Matched("phan", SubSeq(s, q, r - 1), TitleAfterOptSpace(s, r + 1))

MatchChuong(s) ==
    LET q == AfterKeyword(s, "CHUONG")
        r == RomanThen(s, q, ":")
    IN IF r = 0 THEN NoMatch
       ELSE Matched("chuong", SubSeq(s, q, r - 1), TitleAfterOptSpace(s, r + 1))

MatchMuc(s) ==
    LET q == AfterKeyword(s, "MUC")
        r == IF RomanThen(s, q, ":") > 0 THEN RomanThen(s, q, ":")
             ELSE DigitsThen(s, q, ":")
    IN IF r = 0 THEN NoMatch
       ELSE Matched("muc", SubSeq(s, q, r - 1), TitleAfterOptSpace(s, r + 1))

MatchDieu(s) ==
    LET q == AfterKeyword(s, "DIEU")
        r == DigitsThen(s, q, ".")
    IN IF r = 0 THEN NoMatch
       ELSE Matched("dieu", SubSeq(s, q, r - 1), TitleAfterOptSpace(s, r + 1))

MatchKhoan(s) ==
    LET r == DigitsThen(s, 1, ".")
    IN IF r = 0 THEN NoMatch
       ELSE Matched("khoan", SubSeq(s, 1, r - 1), TitleAfterSpace(s, r + 1))

\* self.hierarchy_order
hierarchy_order == <<"phan", "chuong", "muc", "dieu", "khoan">>

\* _match_legal_pattern: the first level of self.patterns, in insertion order,
\* whose pattern matches at the start of the line
match_legal_pattern(line) ==
    IF MatchPhan(line).matched THEN MatchPhan(line)
    ELSE IF MatchChuong(line).matched THEN MatchChuong(line)
    ELSE IF MatchMuc(line).matched THEN MatchMuc(line)
    ELSE IF MatchDieu(line).matched THEN MatchDieu(line)
    ELSE MatchKhoan(line)

\* list.index: the position of the level in hierarchy_order, 0 when absent
\* (where the code raises ValueError)
LevelIndex(level) ==
    IF \E k \in 1..Len(hierarchy_order) : hierarchy_order[k] = level
    THEN CHOOSE k \in 1..Len(hierarchy_order) : hierarchy_order[k] = level
    ELSE 0

\* _is_child_of comparing with >= where the code compares with >
is_child_of_or_same(child_level, parent_level) ==
    IF LevelIndex(child_level) = 0 \/ LevelIndex(parent_level) = 0 THEN FALSE
    ELSE LevelIndex(child_level) >= LevelIndex(parent_level)

\* _is_child_of
is_child_of(child_level, parent_level) ==
    IF LevelIndex(child_level) = 0 \/ LevelIndex(parent_level) = 0 THEN FALSE
    ELSE LevelIndex(child_level) > LevelIndex(parent_level)

-----------------------------------------------------------------------------
(* Inputs *)

\* the lines a document is made of: an empty line, body text with white space
\* around it, one marker of each level (the Khoan indented) and a second Dieu
BlankLine == <<>>
TextLine  == <<"sp", "w", "sp">>
PhanLine  == <<"PHAN", "sp", "I", ":", "sp", "t">>
ChuongLine == <<"CHUONG", "sp", "I", ":", "sp", "t">>
MucLine   == <<"MUC", "sp", "1", ":", "sp", "t">>
Dieu1Line == <<"Dieu", "sp", "1", ".", "sp", "t">>
Dieu2Line == <<"Dieu", "sp", "2", ".", "sp", "w">>
KhoanLine == <<"sp", "1", ".", "sp", "t", "sp", "w">>

DocLines == {BlankLine, TextLine, PhanLine, ChuongLine, MucLine, Dieu1Line,
             Dieu2Line, KhoanLine}

\* a second Chuong and a second Khoan, for the documents given to the clustering
Chuong2Line == <<"CHUONG", "sp", "I", "I", ":", "sp", "t">>
Khoan2Line  == <<"2", ".", "sp", "w">>

\* the tokens of the lines given to the matcher one by one: a letter, a
\* digit, the separators, white space and a word
LineTokens == {"a", "1", ")", ".", "sp", "t"}

\* the lines of 1..n such tokens
TokenLines(n) == UNION {[1..k -> LineTokens] : k \in 1..n}

\* a second line of body text
Text2Line == <<"t", "sp", "t">>

\* the lines of the other inputs
OtherLines == {Chuong2Line, Khoan2Line, Text2Line}

DocumentIds == {"doc-a", "doc-b"}

\* the texts of 1..n lines
Texts(n) == UNION {[1..k -> DocLines] : k \in 1..n}

-----------------------------------------------------------------------------
(* parse_document *)

\* the value of current_provision while no provision is open (None in the code)
NoProvision == [id |-> None]

\* LegalProvision(id=..., level=..., number=..., title=..., content="",
\* document_id=""); parent_id, hierarchy_path and cross_references take the
\* schema's defaults
LegalProvision(m) ==
    [id |-> m.level \o "-" \o m.number, level |-> m.level, number |-> m.number,
     title |-> m.title, content |-> <<>>, document_id |-> "",
     parent_id |-> None, hierarchy_path |-> <<>>, cross_references |-> <<>>]

\* the patterns of _extract_cross_references, by the keyword they start with
\* (the tokens have no word for Khoan)
ReferenceKinds == <<"DIEU", "CHUONG", "MUC", "PHAN">>

\* one pattern of _extract_cross_references tried at position p of the
\* content: the position after the match and the captured group, or 0
ReferenceAt(kind, s, p) ==
    LET q == SpaceEnd(s, p + 1)
        w == SpaceEnd(s, q + 1)
        to == IF Fold(At(s, p)) # kind \/ q = p + 1 THEN 0
              ELSE IF kind \in {"CHUONG", "MUC", "PHAN"} /\ RomanEnd(s, q) > q
                   THEN RomanEnd(s, q)
              ELSE IF kind \in {"DIEU", "MUC"} /\ DigitEnd(s, q) > q
                   THEN DigitEnd(s, q)
              ELSE IF kind = "PHAN" /\ Fold(At(s, q)) = "THU" /\ w > q + 1
                      /\ LetterEnd(s, w) > w
                   THEN LetterEnd(s, w)
              ELSE 0
    IN [to |-> to, group |-> IF to = 0 THEN "" ELSE Concat(SubSeq(s, q, to - 1))]

\* re.findall(pattern, content, re.IGNORECASE): the groups of the matches
\* found from position p on, going on after each match
RECURSIVE FindAll(_, _, _)
FindAll(kind, s, p) ==
    IF p > Len(s) THEN {}
    ELSE IF ReferenceAt(kind, s, p).to = 0 THEN FindAll(kind, s, p + 1)
    ELSE {ReferenceAt(kind, s, p).group} \cup FindAll(kind, s, ReferenceAt(kind, s, p).to)

\* list(set(...)): the elements of a set in one of their orders
RECURSIVE ListOfSet(_)
ListOfSet(S) ==
    IF S = {} THEN <<>>
    ELSE LET x == CHOOSE y \in S : TRUE IN <<x>> \o ListOfSet(S \ {x})

\* _extract_cross_references
extract_cross_references(content) ==
    ListOfSet(UNION {FindAll(ReferenceKinds[k], content, 1) :
                        k \in 1..Len(ReferenceKinds)})

\* Closed with the cross-references of the content stored in the provision
ClosedWithReferences(p, buffer) ==
    [p EXCEPT !.content = Strip(Join(buffer)),
              !.cross_references = extract_cross_references(Strip(Join(buffer)))]

\* current_provision.content = "\n".join(content_buffer).strip()
Closed(p, buffer) == [p EXCEPT !.content = Strip(Join(buffer))]

\* line.strip() and _match_legal_pattern(line) for every line of the input
\* alphabet, computed once
Scanned == [l \in DocLines \cup OtherLines |->
              [line |-> Strip(l), match |-> match_legal_pattern(Strip(l))]]

\* line.strip() and _match_legal_pattern(line) for any line: looked up for
\* the lines above, computed for the others
Scan(l) ==
    IF l \in DOMAIN Scanned THEN Scanned[l]
    ELSE [line |-> Strip(l), match |-> match_legal_pattern(Strip(l))]

\* the line the loop of _extract_provisions looks at next, stripped, and what
\* _match_legal_pattern returns for it
NextLine == Scan(text[i + 1]).line
match_result == Scan(text[i + 1]).match

\* a call that finds the previous call's provisions and buffer, as a parser
\* keeping them in attributes would
StaleCall(t, d) ==
    /\ text' = t
    /\ document_id' = d
    /\ i' = 0
    /\ j' = 0
    /\ provision_data' = <<>>
    /\ hierarchy' = <<>>
    /\ parent_stack' = <<>>
    /\ pc' = "extract"
    /\ UNCHANGED <<provisions, current_provision, content_buffer>>

\* the locals of a call, as parse_document finds them
FreshCall(t, d) ==
    /\ text' = t
    /\ document_id' = d
    /\ i' = 0
    /\ provisions' = <<>>
    /\ current_provision' = NoProvision
    /\ content_buffer' = <<>>
    /\ j' = 0
    /\ provision_data' = <<>>
    /\ hierarchy' = <<>>
    /\ parent_stack' = <<>>
    /\ pc' = "extract"

\* the first call of parse_document on a parser, on a text of at most n lines
parse_document(n) ==
    /\ pc = "idle"
    /\ \E t \in Texts(n) : FreshCall(t, "doc-a")
    /\ UNCHANGED <<history, notParseVars>>

\* a text parsed between two parses of the same text
OtherTexts == {<<ChuongLine, Dieu1Line, KhoanLine, TextLine>>}

\* a later call of parse_document on the same parser: the first text again, or
\* another text and then the first text again
parse_document_again ==
    /\ pc = "done"
    /\ \/ /\ Len(history) = 1
          /\ \E t \in {history[1].text} \cup OtherTexts : FreshCall(t, "doc-b")
       \/ /\ Len(history) = 2
          /\ history[2].text # history[1].text
          /\ FreshCall(history[1].text, "doc-b")
    /\ UNCHANGED <<history, notParseVars>>

\* _extract_provisions, one line: "if not line: continue"
SkipBlankLine ==
    /\ pc = "extract"
    /\ i < Len(text)
    /\ NextLine = <<>>
    /\ i' = i + 1
    /\ UNCHANGED <<text, document_id, pc, provisions, current_provision,
                   content_buffer, j, provision_data, hierarchy, parent_stack,
                   history,
                   notParseVars>>

\* MarkerLine with "content_buffer = [line]" turned into an append
MarkerLineKeepsBuffer ==
    /\ pc = "extract"
    /\ i < Len(text)
    /\ NextLine # <<>>
    /\ match_result.matched
    /\ provisions' = IF current_provision.id # None
                     THEN Append(provisions, Closed(current_provision, content_buffer))
                     ELSE provisions
    /\ current_provision' = LegalProvision(match_result)
    /\ content_buffer' = Append(content_buffer, NextLine)
    /\ i' = i + 1
    /\ UNCHANGED <<text, document_id, pc, j, provision_data, hierarchy,
                   parent_stack, history,
                   notParseVars>>

\* _extract_provisions, one line: the line is a marker
MarkerLine ==
    /\ pc = "extract"
    /\ i < Len(text)
    /\ NextLine # <<>>
    /\ match_result.matched
    /\ provisions' = IF current_provision.id # None
                     THEN Append(provisions, Closed(current_provision, content_buffer))
                     ELSE provisions
    /\ current_provision' = LegalProvision(match_result)
    /\ content_buffer' = <<NextLine>>
    /\ i' = i + 1
    /\ UNCHANGED <<text, document_id, pc, j, provision_data, hierarchy,
                   parent_stack, history,
                   notParseVars>>

\* BodyLine closing the open provision, as if body text ended a provision
BodyLineClosesProvision ==
    /\ pc = "extract"
    /\ i < Len(text)
    /\ NextLine # <<>>
    /\ ~match_result.matched
    /\ provisions' = IF current_provision.id # None
                     THEN Append(provisions, Closed(current_provision,
                                                    Append(content_buffer, NextLine)))
                     ELSE provisions
    /\ current_provision' = NoProvision
    /\ content_buffer' = <<>>
    /\ i' = i + 1
    /\ UNCHANGED <<text, document_id, pc, j, provision_data, hierarchy,
                   parent_stack, history,
                   notParseVars>>

\* _extract_provisions, one line: the line is no marker
BodyLine ==
    /\ pc = "extract"
    /\ i < Len(text)
    /\ NextLine # <<>>
    /\ ~match_result.matched
    /\ content_buffer' = IF current_provision.id # None
                         THEN Append(content_buffer, NextLine)
                         ELSE content_buffer
    /\ i' = i + 1
    /\ UNCHANGED <<text, document_id, pc, provisions, current_provision, j,
                   provision_data, hierarchy, parent_stack, history,
                   notParseVars>>

\* EndOfInput without the "Add last provision" block
EndOfInputDropsLast ==
    /\ pc = "extract"
    /\ i = Len(text)
    /\ provisions' = [k \in 1..Len(provisions) |->
                         [provisions[k] EXCEPT !.document_id = document_id]]
    /\ pc' = "hierarchy"
    /\ UNCHANGED <<text, document_id, i, current_provision, content_buffer, j,
                   provision_data, hierarchy, parent_stack, history,
                   notParseVars>>

\* _extract_provisions after the loop ("Add last provision"), then the loop of
\* parse_document that sets document_id on every provision
EndOfInput ==
    /\ pc = "extract"
    /\ i = Len(text)
    /\ LET all == IF current_provision.id # None
                  THEN Append(provisions, Closed(current_provision, content_buffer))
                  ELSE provisions
       IN provisions' = [k \in 1..Len(all) |->
                            [all[k] EXCEPT !.document_id = document_id]]
    /\ pc' = "hierarchy"
    /\ UNCHANGED <<text, document_id, i, current_provision, content_buffer, j,
                   provision_data, hierarchy, parent_stack, history,
                   notParseVars>>

\* the while loop of _build_hierarchy left out: the previous provision stays on top
PopNothing(stack, data, level) == stack

\* the while loop of _build_hierarchy turned into an if: one pop at most
PopOnce(stack, data, level) ==
    IF stack # <<>> /\ ~is_child_of(level, data[stack[Len(stack)]].level)
    THEN SubSeq(stack, 1, Len(stack) - 1)
    ELSE stack

\* the while loop of _build_hierarchy: pop until the top can be the parent
RECURSIVE PopWhile(_, _, _)
PopWhile(stack, data, level) ==
    IF stack # <<>> /\ ~is_child_of(level, data[stack[Len(stack)]].level)
    THEN PopWhile(SubSeq(stack, 1, Len(stack) - 1), data, level)
    ELSE stack

\* d.setdefault(key, value): the first value stored under a key stays
DictPutIfAbsent(d, key, value) ==
    [k \in DOMAIN d \cup {key} |-> IF k \in DOMAIN d THEN d[k] ELSE value]

\* dict assignment d[key] = value
DictPut(d, key, value) ==
    [k \in DOMAIN d \cup {key} |-> IF k = key THEN value ELSE d[k]]

\* BuildHierarchyStep with the path built by appending to the parent's list in
\* place instead of "+": the parent's path, shared by its provision and its
\* provision_data, grows with the child's id
BuildHierarchyStepInPlace ==
    /\ pc = "hierarchy"
    /\ j < Len(provisions)
    /\ LET provision == provisions[j + 1]
           stack     == PopWhile(parent_stack, provision_data, provision.level)
           parent_id == IF stack # <<>>
                        THEN provision_data[stack[Len(stack)]].id ELSE None
           path      == IF stack # <<>>
                        THEN Append(provision_data[stack[Len(stack)]].hierarchy_path,
                                    provision.id)
                        ELSE <<provision.id>>
           new_data  == [id |-> provision.id, level |-> provision.level,
                         number |-> provision.number, title |-> provision.title,
                         parent_id |-> parent_id, hierarchy_path |-> path,
                         children |-> <<>>]
           appended  == IF parent_id # None /\ parent_id \in DOMAIN hierarchy
                        THEN [provision_data EXCEPT ![hierarchy[parent_id]].children =
                                 Append(@, provision.id)]
                        ELSE provision_data
           pos       == Len(provision_data) + 1
           shared    == IF stack # <<>>
                        THEN [appended EXCEPT ![stack[Len(stack)]].hierarchy_path = path]
                        ELSE appended
       IN /\ provisions' = [k \in 1..Len(provisions) |->
                               IF k = j + 1
                               THEN [provisions[k] EXCEPT !.parent_id = parent_id,
                                                          !.hierarchy_path = path]
                               ELSE IF stack # <<>> /\ k = stack[Len(stack)]
                               THEN [provisions[k] EXCEPT !.hierarchy_path = path]
                               ELSE provisions[k]]
          /\ provision_data' = Append(shared, new_data)
          /\ hierarchy' = DictPut(hierarchy, provision.id, pos)
          /\ parent_stack' = Append(stack, pos)
    /\ j' = j + 1
    /\ UNCHANGED <<text, document_id, pc, i, current_provision, content_buffer,
                   history,
                   notParseVars>>

\* _build_hierarchy, one iteration of "for provision in provisions".  The
\* dicts the code creates live in provision_data; hierarchy and parent_stack
\* hold positions in it, as the code's dict and list hold references.
BuildHierarchyStep ==
    /\ pc = "hierarchy"
    /\ j < Len(provisions)
    /\ LET provision == provisions[j + 1]
           stack     == PopWhile(parent_stack, provision_data, provision.level)
           parent_id == IF stack # <<>>
                        THEN provision_data[stack[Len(stack)]].id ELSE None
           path      == IF stack # <<>>
                        THEN Append(provision_data[stack[Len(stack)]].hierarchy_path,
                                    provision.id)
                        ELSE <<provision.id>>
           new_data  == [id |-> provision.id, level |-> provision.level,
                         number |-> provision.number, title |-> provision.title,
                         parent_id |-> parent_id, hierarchy_path |-> path,
                         children |-> <<>>]
           appended  == IF parent_id # None /\ parent_id \in DOMAIN hierarchy
                        THEN [provision_data EXCEPT ![hierarchy[parent_id]].children =
                                 Append(@, provision.id)]
                        ELSE provision_data
           pos       == Len(provision_data) + 1
       IN /\ provisions' = [provisions EXCEPT ![j + 1] =
                               [@ EXCEPT !.parent_id = parent_id,
                                         !.hierarchy_path = path]]
          /\ provision_data' = Append(appended, new_data)
          /\ hierarchy' = DictPut(hierarchy, provision.id, pos)
          /\ parent_stack' = Append(stack, pos)
    /\ j' = j + 1
    /\ UNCHANGED <<text, document_id, pc, i, current_provision, content_buffer,
                   history,
                   notParseVars>>

\* the number of leading lines _extract_title looks at
TitleScanLines == 10

\* _extract_title going through all the lines of the text
RECURSIVE FirstTitleOfAllLines(_, _)
FirstTitleOfAllLines(lines, k) ==
    IF k > Len(lines) THEN <<"Legal Document">>
    ELSE IF Scan(lines[k]).line # <<>> /\ ~Scan(lines[k]).match.matched
         THEN Scan(lines[k]).line
         ELSE FirstTitleOfAllLines(lines, k + 1)

\* _extract_title
RECURSIVE FirstTitle(_, _)
FirstTitle(lines, k) ==
    IF k > Len(lines) \/ k > TitleScanLines THEN <<"Legal Document">>
    ELSE IF Scan(lines[k]).line # <<>> /\ ~Scan(lines[k]).match.matched
         THEN Scan(lines[k]).line
         ELSE FirstTitle(lines, k + 1)

extract_title(t) == FirstTitle(t, 1)

\* the dict _build_hierarchy returns: id -> provision_data
Structure == [id \in DOMAIN hierarchy |-> provision_data[hierarchy[id]]]

\* the LegalDocument parse_document returns
LegalDocument ==
    [id |-> document_id, title |-> extract_title(text), text |-> text,
     structure |-> Structure, provisions |-> provisions]

\* _build_hierarchy returns and parse_document returns the document
Return ==
    /\ pc = "hierarchy"
    /\ j = Len(provisions)
    /\ history' = Append(history, LegalDocument)
    /\ pc' = "done"
    /\ UNCHANGED <<text, document_id, i, provisions, current_provision,
                   content_buffer, j, provision_data, hierarchy, parent_stack,
                   notParseVars>>

\* the clustering variables while no clustering runs
ClusterIdle ==
    /\ entities = <<>>
    /\ legal_provisions = <<>>
    /\ min_cluster_size = 0
    /\ structure_clusters = <<>>
    /\ group = 0
    /\ embeddings = <<>>
    /\ final_clusters = <<>>
    /\ outcomes = <<>>

\* the matrices while none is computed
MatrixIdle ==
    /\ legal_similarity = <<>>
    /\ semantic_similarity = <<>>
    /\ combined_similarity = <<>>
    /\ distance_matrix = <<>>

\* get_cluster_summary before it is called
SummaryIdle ==
    /\ summary_clusters = <<>>
    /\ summary = [returned |-> FALSE]

\* _split_text_by_tokens before it is called
ChunkIdle ==
    /\ tokens = <<>>
    /\ max_chunk_tokens = 0
    /\ overlap_tokens = 0
    /\ start_idx = 0
    /\ chunks = <<>>

\* _call_llm before it is called
LlmIdle ==
    /\ prompt = ""
    /\ retry_count = 0
    /\ completions = <<>>
    /\ sleeps = 0
    /\ response = ""

\* the operations that stand apart, before they are called
OtherIdle == SummaryIdle /\ ChunkIdle /\ LlmIdle

\* the selector variables while no selector runs
SelectIdle ==
    /\ n_samples = 0
    /\ max_clusters = 0
    /\ scores = <<>>
    /\ optimal_clusters = 0

-----------------------------------------------------------------------------
(* One parser, one call of parse_document *)

Init ==
    /\ pc = "idle"
    /\ text = <<>>
    /\ document_id = ""
    /\ i = 0
    /\ provisions = <<>>
    /\ current_provision = NoProvision
    /\ content_buffer = <<>>
    /\ j = 0
    /\ provision_data = <<>>
    /\ hierarchy = <<>>
    /\ parent_stack = <<>>
    /\ history = <<>>
    /\ ClusterIdle
    /\ SelectIdle
    /\ MatrixIdle
    /\ OtherIdle

Next ==
    \/ parse_document(MaxLines)
    \/ SkipBlankLine
    \/ MarkerLine
    \/ BodyLine
    \/ EndOfInput
    \/ BuildHierarchyStep
    \/ Return

Spec == Init /\ [][Next]_vars

-----------------------------------------------------------------------------
(* One parser, one call of parse_document on a text of one line *)

\* parse_document on a text of one line of tokens
parse_document_of_line ==
    /\ pc = "idle"
    /\ \E line \in TokenLines(MaxLineTokens) : FreshCall(<<line>>, "doc-a")
    /\ UNCHANGED <<history, notParseVars>>

NextLineOnly ==
    \/ parse_document_of_line
    \/ SkipBlankLine
    \/ MarkerLine
    \/ BodyLine
    \/ EndOfInput
    \/ BuildHierarchyStep
    \/ Return

SpecLine == Init /\ [][NextLineOnly]_vars

-----------------------------------------------------------------------------
(* One parser, one call of parse_document on a text with a late title *)

\* the line at position m of a text of blank lines, of markers, or of both
Fill(kind, m) ==
    CASE kind = "blank"  -> BlankLine
      [] kind = "marker" -> Dieu1Line
      [] OTHER           -> IF m % 2 = 1 THEN BlankLine ELSE KhoanLine

\* the texts of 1..n such lines with body text at up to two positions
TitleTexts(n) ==
    {[m \in 1..k |-> IF m = p THEN TextLine ELSE IF m = q THEN Text2Line
                                                ELSE Fill(kind, m)] :
        k \in 1..n, p \in 0..n, q \in 0..n, kind \in {"blank", "marker", "mixed"}}

\* parse_document on such a text
parse_document_for_title ==
    /\ pc = "idle"
    /\ \E t \in TitleTexts(MaxTitleLines) : FreshCall(t, "doc-a")
    /\ UNCHANGED <<history, notParseVars>>

NextTitle ==
    \/ parse_document_for_title
    \/ SkipBlankLine
    \/ MarkerLine
    \/ BodyLine
    \/ EndOfInput
    \/ BuildHierarchyStep
    \/ Return

SpecTitle == Init /\ [][NextTitle]_vars

-----------------------------------------------------------------------------
(* One parser, several calls of parse_document *)

NextAgain ==
    \/ parse_document(MaxLinesAgain)
    \/ parse_document_again
    \/ SkipBlankLine
    \/ MarkerLine
    \/ BodyLine
    \/ EndOfInput
    \/ BuildHierarchyStep
    \/ Return

SpecAgain == Init /\ [][NextAgain]_vars

-----------------------------------------------------------------------------
(* Properties of the parsed document *)

Levels == {hierarchy_order[k] : k \in 1..Len(hierarchy_order)}

\* the level an id "level-number" names
IdLevel(id) ==
    CHOOSE l \in Levels :
        \E k \in 1..Len(provisions) : id = l \o "-" \o provisions[k].number

Parsed == pc = "done"

\* C1: after the Hierarchy Builder has run, every provision's hierarchy_path is
\* non-empty, ends with the provision's own id, and the levels of adjacent
\* path elements strictly increase in taxonomy order.
C1_PathInvariant ==
    Parsed =>
        \A k \in 1..Len(provisions) :
            LET path == provisions[k].hierarchy_path IN
            /\ path # <<>>
            /\ path[Len(path)] = provisions[k].id
            /\ \A n \in 1..(Len(path) - 1) :
                   LevelIndex(IdLevel(path[n])) < LevelIndex(IdLevel(path[n + 1]))

\* a parsed document with a path of three levels below a sibling at the same level
C1_Witness ==
    /\ Parsed
    /\ \E k \in 1..Len(provisions) : Len(provisions[k].hierarchy_path) >= 3
    /\ \E k \in 1..(Len(provisions) - 1) : provisions[k].level = provisions[k + 1].level

\* C2: after parse_document every provision with a parent_id lies strictly
\* deeper than the provision it got as parent, every index entry with a
\* parent_id finds that id in the index under a level _is_child_of accepts, and
\* _is_child_of(child, parent) is true exactly when index(child) > index(parent).
C2_Containment ==
    Parsed =>
        /\ \A c \in Levels : \A p \in Levels :
               is_child_of(c, p) <=> (LevelIndex(c) > LevelIndex(p))
        /\ is_child_of("muc", "chuong") /\ is_child_of("dieu", "muc")
        /\ is_child_of("khoan", "dieu") /\ ~is_child_of("chuong", "muc")
        /\ \A k \in 1..Len(provisions) :
               provisions[k].parent_id # None =>
                   LevelIndex(IdLevel(provisions[k].parent_id))
                       < LevelIndex(provisions[k].level)
        /\ \A id \in DOMAIN Structure :
               Structure[id].parent_id # None =>
                   /\ Structure[id].parent_id \in DOMAIN Structure
                   /\ is_child_of(Structure[id].level,
                                  Structure[Structure[id].parent_id].level)

\* a parsed document where a provision follows a deeper one and still has a parent
C2_Witness ==
    /\ Parsed
    /\ \E k \in 2..Len(provisions) :
           /\ provisions[k].parent_id # None
           /\ LevelIndex(provisions[k - 1].level) > LevelIndex(provisions[k].level)

\* what C5 compares of a provision
Compared(p) ==
    [id |-> p.id, level |-> p.level, number |-> p.number, title |-> p.title,
     content |-> p.content, parent_id |-> p.parent_id,
     hierarchy_path |-> p.hierarchy_path]

\* C5: two parses of the same text by one parser, whatever was parsed in
\* between, return provision lists that agree position by position on id,
\* level, ordinal, title, body, parent_id and hierarchy_path.
C5_SameTextSameProvisions ==
    \A a \in 1..Len(history) : \A b \in 1..Len(history) :
        history[a].text = history[b].text =>
            /\ Len(history[a].provisions) = Len(history[b].provisions)
            /\ \A k \in 1..Len(history[a].provisions) :
                   Compared(history[a].provisions[k]) = Compared(history[b].provisions[k])

\* a text with a nested provision parsed, then another text, then the first again
C5_Witness ==
    /\ Len(history) = 3
    /\ history[1].text = history[3].text
    /\ history[2].text # history[1].text
    /\ history[1].id # history[3].id
    /\ \E k \in 1..Len(history[3].provisions) :
           Len(history[3].provisions[k].hierarchy_path) >= 2

-----------------------------------------------------------------------------
(* Cluster count selectors *)

Min2(a, b) == IF a <= b THEN a ELSE b

\* range(1, max_clusters + 1)
cluster_range(m) == IF m >= 1 THEN [k \in 1..m |-> k] ELSE <<>>

\* max_clusters = min(max_clusters, n_samples - 1)
CappedMax(n, m) == Min2(m, n - 1)

\* the last position of the largest element, counted from 1
ArgMaxLast(seq) ==
    CHOOSE k \in 1..Len(seq) :
        /\ \A n \in 1..Len(seq) : seq[n] <= seq[k]
        /\ \A n \in (k + 1)..Len(seq) : seq[n] < seq[k]

\* np.argmax, counted from 1: the first position of the largest element
ArgMax(seq) ==
    CHOOSE k \in 1..Len(seq) :
        /\ \A n \in 1..Len(seq) : seq[n] <= seq[k]
        /\ \A n \in 1..(k - 1) : seq[n] < seq[k]

\* np.argmin, counted from 1: the first position of the smallest element
ArgMin(seq) ==
    CHOOSE k \in 1..Len(seq) :
        /\ \A n \in 1..Len(seq) : seq[n] >= seq[k]
        /\ \A n \in 1..(k - 1) : seq[n] > seq[k]

\* second_derivatives of _get_optimal_clusters_from_distance
second_derivatives(inertias) ==
    [k \in 1..(Len(inertias) - 2) |->
        inertias[k] - 2 * inertias[k + 1] + inertias[k + 2]]

\* the except branches returning 3 without the min with max_clusters
FallbackUncapped(n, m) == 3

\* the except branches of both selectors: min(3, max_clusters), after the cap
Fallback(n, m) == Min2(3, CappedMax(n, m))

\* _get_optimal_clusters_from_distance when nothing raises, for the inertias
\* KMeans reports for k = 1..max_clusters
optimal_clusters_from_distance(n, m, inertias) ==
    IF n <= 2 THEN 1
    ELSE IF Len(inertias) < 3 THEN Min2(2, CappedMax(n, m))
    ELSE Min2(ArgMax(second_derivatives(inertias)) - 1 + 2, CappedMax(n, m))

\* _get_optimal_clusters for the BIC scores of k = 1..max_clusters; np.argmin
\* raises on an empty list and the except branch answers
get_optimal_clusters(n, m, bic_scores) ==
    IF n <= 2 THEN 1
    ELSE IF bic_scores = <<>> THEN Fallback(n, m)
    ELSE cluster_range(CappedMax(n, m))[ArgMin(bic_scores)]

\* the score lists a selector can collect for max_clusters candidates
ScoreLists(m) == IF m >= 1 THEN [1..m -> 0..MaxScore] ELSE {<<>>}

Selected(where, result, collected) ==
    /\ pc' = where
    /\ optimal_clusters' = result
    /\ scores' = collected
    /\ UNCHANGED <<n_samples, max_clusters, notSelectVars>>

\* _get_optimal_clusters_from_distance: "if n_samples <= 2: return 1"
ElbowFewSamples ==
    /\ pc = "select"
    /\ n_samples <= 2
    /\ Selected("elbow_few_samples",
                optimal_clusters_from_distance(n_samples, max_clusters, <<>>), <<>>)

\* _get_optimal_clusters_from_distance: fewer than 3 candidate counts
ElbowFewCandidates ==
    /\ pc = "select"
    /\ n_samples > 2
    /\ CappedMax(n_samples, max_clusters) < 3
    /\ \E inertias \in ScoreLists(CappedMax(n_samples, max_clusters)) :
           Selected("elbow_few_candidates",
                    optimal_clusters_from_distance(n_samples, max_clusters, inertias),
                    inertias)

\* _get_optimal_clusters_from_distance: the elbow of the inertias
ElbowCurvature ==
    /\ pc = "select"
    /\ n_samples > 2
    /\ CappedMax(n_samples, max_clusters) >= 3
    /\ \E inertias \in ScoreLists(CappedMax(n_samples, max_clusters)) :
           Selected("elbow_curvature",
                    optimal_clusters_from_distance(n_samples, max_clusters, inertias),
                    inertias)

\* _get_optimal_clusters_from_distance: KMeans raises for some candidate count
ElbowRaises ==
    /\ pc = "select"
    /\ n_samples > 2
    /\ CappedMax(n_samples, max_clusters) >= 1
    /\ Selected("elbow_fallback", Fallback(n_samples, max_clusters), <<>>)

\* _get_optimal_clusters: "if len(embeddings) <= 2: return 1"
BicFewSamples ==
    /\ pc = "select"
    /\ n_samples <= 2
    /\ Selected("bic_few_samples",
                get_optimal_clusters(n_samples, max_clusters, <<>>), <<>>)

\* _get_optimal_clusters: the candidate count of the least BIC score, or the
\* except branch when there is no candidate
BicMinimum ==
    /\ pc = "select"
    /\ n_samples > 2
    /\ \E bic_scores \in ScoreLists(CappedMax(n_samples, max_clusters)) :
           Selected(IF bic_scores = <<>> THEN "bic_fallback" ELSE "bic_minimum",
                    get_optimal_clusters(n_samples, max_clusters, bic_scores),
                    bic_scores)

\* _get_optimal_clusters: GaussianMixture raises for some candidate count
BicRaises ==
    /\ pc = "select"
    /\ n_samples > 2
    /\ CappedMax(n_samples, max_clusters) >= 1
    /\ Selected("bic_fallback", Fallback(n_samples, max_clusters), <<>>)

\* a selector is called on a matrix of n_samples rows with some max_clusters
InitSelect ==
    /\ pc = "select"
    /\ n_samples \in 0..MaxSamples
    /\ max_clusters \in (0 - 1)..MaxMaxClusters
    /\ scores = <<>>
    /\ optimal_clusters = 0
    /\ text = <<>>
    /\ document_id = ""
    /\ i = 0
    /\ provisions = <<>>
    /\ current_provision = NoProvision
    /\ content_buffer = <<>>
    /\ j = 0
    /\ provision_data = <<>>
    /\ hierarchy = <<>>
    /\ parent_stack = <<>>
    /\ history = <<>>
    /\ ClusterIdle
    /\ MatrixIdle
    /\ OtherIdle

NextSelect ==
    \/ ElbowFewSamples
    \/ ElbowFewCandidates
    \/ ElbowCurvature
    \/ ElbowRaises
    \/ BicFewSamples
    \/ BicMinimum
    \/ BicRaises

SpecSelect == InitSelect /\ [][NextSelect]_vars

-----------------------------------------------------------------------------
(* perform_clustering *)

\* the provisions argument: none, or the provisions of a chapter with one
\* article of two clauses
SampleProvisions ==
    << [id |-> "chuong-I", hierarchy_path |-> <<"chuong-I">>],
       [id |-> "dieu-1",   hierarchy_path |-> <<"chuong-I", "dieu-1">>],
       [id |-> "khoan-1",  hierarchy_path |-> <<"chuong-I", "dieu-1", "khoan-1">>],
       [id |-> "khoan-2",  hierarchy_path |-> <<"chuong-I", "dieu-1", "khoan-2">>] >>

ProvisionLists == {<<>>, SampleProvisions}

\* the records: two from clauses of one article, one from the article, one
\* whose source is no provision
EntityPool ==
    { [entity_name |-> "a", level |-> "khoan", source_id |-> "khoan-1"],
      [entity_name |-> "b", level |-> "khoan", source_id |-> "khoan-2"],
      [entity_name |-> "c", level |-> "dieu",  source_id |-> "dieu-1"],
      [entity_name |-> "d", level |-> "khoan", source_id |-> "nowhere"] }

EntityLists == UNION {[1..n -> EntityPool] : n \in 0..MaxEntities}

MinClusterSizes == {1, 3}

\* provision_lookup[source_id].hierarchy_path, [] when the source is not found
\* (a later provision with the same id replaces an earlier one)
SourcePath(provs, source_id) ==
    LET at == {k \in 1..Len(provs) : provs[k].id = source_id}
    IN IF at = {} THEN <<>>
       ELSE provs[CHOOSE k \in at : \A other \in at : other <= k].hierarchy_path

\* hierarchy_path[:-n]
DropLast(path, n) == SubSeq(path, 1, Len(path) - n)

\* the clustering key without the branch for Dieu records
ClusteringKeyOfParent(entity, provs) ==
    LET hierarchy_path == SourcePath(provs, entity.source_id) IN
    IF hierarchy_path # <<>>
    THEN IF Len(hierarchy_path) > 1 THEN DropLast(hierarchy_path, 1)
         ELSE hierarchy_path
    ELSE <<entity.level>>

\* the clustering key of _cluster_by_legal_structure
ClusteringKey(entity, provs) ==
    LET hierarchy_path == SourcePath(provs, entity.source_id) IN
    IF hierarchy_path # <<>>
    THEN IF entity.level = "khoan" /\ Len(hierarchy_path) > 1
         THEN DropLast(hierarchy_path, 1)
         ELSE IF entity.level = "dieu" /\ Len(hierarchy_path) > 2
         THEN DropLast(hierarchy_path, 2)
         ELSE IF Len(hierarchy_path) > 1 THEN DropLast(hierarchy_path, 1)
         ELSE hierarchy_path
    ELSE <<entity.level>>

\* hierarchy_groups[key].append(entity) for the records at positions from..
\* of ents: groups holds the lists, keys their keys in insertion order
RECURSIVE GroupByKey(_, _, _, _, _)
GroupByKey(ents, provs, from, keys, groups) ==
    IF from > Len(ents) THEN groups
    ELSE LET key == ClusteringKey(ents[from], provs)
             at  == {k \in 1..Len(keys) : keys[k] = key}
         IN IF at = {}
            THEN GroupByKey(ents, provs, from + 1, Append(keys, key),
                            Append(groups, <<from>>))
            ELSE GroupByKey(ents, provs, from + 1, keys,
                            [groups EXCEPT ![CHOOSE k \in at : TRUE] = Append(@, from)])

\* _cluster_by_legal_structure: the groups, as lists of positions in entities
cluster_by_legal_structure(ents, provs) == GroupByKey(ents, provs, 1, <<>>, <<>>)

\* clusters[label].append(entities[i]) leaving out the records of the last label
RECURSIVE GroupByLabelButLast(_, _, _, _, _)
GroupByLabelButLast(members, labels, from, seen, clusters) ==
    IF from > Len(members) THEN clusters
    ELSE LET at == {k \in 1..Len(seen) : seen[k] = labels[from]}
         IN IF labels[from] = 1
            THEN GroupByLabelButLast(members, labels, from + 1, seen, clusters)
            ELSE IF at = {}
            THEN GroupByLabelButLast(members, labels, from + 1,
                                     Append(seen, labels[from]),
                                     Append(clusters, <<members[from]>>))
            ELSE GroupByLabelButLast(members, labels, from + 1, seen,
                     [clusters EXCEPT ![CHOOSE k \in at : TRUE] =
                         Append(@, members[from])])

\* clusters[label].append(entities[i]) for i, label in enumerate(cluster_labels)
RECURSIVE GroupByLabel(_, _, _, _, _)
GroupByLabel(members, labels, from, seen, clusters) ==
    IF from > Len(members) THEN clusters
    ELSE LET at == {k \in 1..Len(seen) : seen[k] = labels[from]}
         IN IF at = {}
            THEN GroupByLabel(members, labels, from + 1, Append(seen, labels[from]),
                              Append(clusters, <<members[from]>>))
            ELSE GroupByLabel(members, labels, from + 1, seen,
                     [clusters EXCEPT ![CHOOSE k \in at : TRUE] =
                         Append(@, members[from])])

\* the structure_cluster the loop of perform_clustering is at
structure_cluster == structure_clusters[group]

\* the value of embeddings when _get_entity_embeddings returned None
NoEmbeddings == <<"None">>

\* how a structure_cluster left the loop: by the statement that produced its
\* clusters, and selection tells whether _get_optimal_clusters_from_distance
\* returned from its try block ("returned") or from its except block ("fallback")
Outcome(by, selection) == [by |-> by, selection |-> selection]

\* perform_clustering: "if len(entities) < self.min_cluster_size: return [entities]"
FewEntities ==
    /\ pc = "idle"
    /\ \E ents \in EntityLists, provs \in ProvisionLists, size \in MinClusterSizes :
           /\ Len(ents) < size
           /\ entities' = ents
           /\ legal_provisions' = provs
           /\ min_cluster_size' = size
           /\ final_clusters' = <<[k \in 1..Len(ents) |-> k]>>
    /\ pc' = "clustered"
    /\ UNCHANGED <<structure_clusters, group, embeddings, outcomes, notClusterVars>>

\* perform_clustering: Step 1, _cluster_by_legal_structure
perform_clustering ==
    /\ pc = "idle"
    /\ \E ents \in EntityLists, provs \in ProvisionLists, size \in MinClusterSizes :
           /\ Len(ents) >= size
           /\ entities' = ents
           /\ legal_provisions' = provs
           /\ min_cluster_size' = size
           /\ structure_clusters' = cluster_by_legal_structure(ents, provs)
    /\ group' = 1
    /\ final_clusters' = <<>>
    /\ embeddings' = <<>>
    /\ outcomes' = <<>>
    /\ pc' = "groups"
    /\ UNCHANGED notClusterVars

\* the loop of perform_clustering that stops at the first structure_cluster
\* whose processing raised
NextGroupUnlessRaised(clusters, outcome) ==
    /\ final_clusters' = final_clusters \o clusters
    /\ group' = IF outcome.by = "raised" THEN Len(structure_clusters) + 1
                ELSE group + 1
    /\ embeddings' = <<>>
    /\ outcomes' = Append(outcomes, outcome)
    /\ pc' = "groups"
    /\ UNCHANGED <<entities, legal_provisions, min_cluster_size, structure_clusters,
                   notClusterVars>>

\* the loop of perform_clustering with "final_clusters = semantic_clusters" in
\* the place of append and extend
NextGroupAlone(clusters, outcome) ==
    /\ final_clusters' = clusters
    /\ group' = group + 1
    /\ embeddings' = <<>>
    /\ outcomes' = Append(outcomes, outcome)
    /\ pc' = "groups"
    /\ UNCHANGED <<entities, legal_provisions, min_cluster_size, structure_clusters,
                   notClusterVars>>

\* the loop of perform_clustering goes on with the next structure_cluster
NextGroup(clusters, outcome) ==
    /\ final_clusters' = final_clusters \o clusters
    /\ group' = group + 1
    /\ embeddings' = <<>>
    /\ outcomes' = Append(outcomes, outcome)
    /\ pc' = "groups"
    /\ UNCHANGED <<entities, legal_provisions, min_cluster_size, structure_clusters,
                   notClusterVars>>

\* perform_clustering: a structure_cluster below min_cluster_size is kept whole
SmallGroup ==
    /\ pc = "groups"
    /\ group <= Len(structure_clusters)
    /\ Len(structure_cluster) < min_cluster_size
    /\ NextGroup(<<structure_cluster>>, Outcome("small", "none"))

\* _get_entity_embeddings, one name: entity_vdb.query returns a match that
\* carries an embedding, or embedding_func is called for the name
EmbeddingFound ==
    /\ pc \in {"groups", "embeddings"}
    /\ group <= Len(structure_clusters)
    /\ Len(structure_cluster) >= min_cluster_size
    /\ Len(embeddings) < Len(structure_cluster)
    /\ \E source \in {"stored", "generated"} : embeddings' = Append(embeddings, source)
    /\ pc' = "embeddings"
    /\ UNCHANGED <<entities, legal_provisions, min_cluster_size, structure_clusters,
                   group, final_clusters, outcomes, notClusterVars>>

\* _get_entity_embeddings, one name: query or embedding_func raises (or returns
\* no vector, and embedding[0] raises), the function returns None and
\* perform_clustering keeps the structure_cluster whole
EmbeddingRaises ==
    /\ pc \in {"groups", "embeddings"}
    /\ group <= Len(structure_clusters)
    /\ Len(structure_cluster) >= min_cluster_size
    /\ Len(embeddings) < Len(structure_cluster)
    /\ NextGroup(<<structure_cluster>>, Outcome("no_embeddings", "none"))

\* _get_entity_embeddings has returned the array of all the vectors
EmbeddingsReturned ==
    /\ pc = "embeddings"
    /\ Len(embeddings) = Len(structure_cluster)

\* _cluster_with_legal_context: "if len(entities) <= 1: return [entities]"
SingleRecord ==
    /\ EmbeddingsReturned
    /\ Len(structure_cluster) <= 1
    /\ NextGroup(<<structure_cluster>>, Outcome("single", "none"))

\* the similarity matrices computed while vectors are still being looked up
ComputeSimilarityEarly ==
    /\ pc = "embeddings"
    /\ Len(structure_cluster) > 1
    /\ pc' = "similarity"
    /\ UNCHANGED <<clusterVars, notClusterVars>>

\* _cluster_with_legal_context: legal_similarity, semantic_similarity,
\* combined_similarity and distance_matrix are computed
ComputeSimilarity ==
    /\ EmbeddingsReturned
    /\ Len(structure_cluster) > 1
    /\ pc' = "similarity"
    /\ UNCHANGED <<clusterVars, notClusterVars>>

\* _cluster_with_legal_context: computing the matrices raises
SimilarityRaises ==
    /\ EmbeddingsReturned
    /\ Len(structure_cluster) > 1
    /\ NextGroup(<<structure_cluster>>, Outcome("raised", "none"))

\* what _get_optimal_clusters_from_distance returns for n records from its
\* try block (or before it) in _cluster_with_legal_context
ReturnedCounts(n) ==
    {optimal_clusters_from_distance(n, Min2(5, n \div 2), inertias) :
        inertias \in ScoreLists(CappedMax(n, Min2(5, n \div 2)))}

\* and from its except block
FallbackCounts(n) ==
    IF n > 2 /\ CappedMax(n, Min2(5, n \div 2)) >= 1
    THEN {Fallback(n, Min2(5, n \div 2))} ELSE {}

\* what _get_optimal_clusters_from_distance can return in
\* _cluster_with_legal_context for n records
OptimalClusterCounts(n) == ReturnedCounts(n) \cup FallbackCounts(n)

\* the values optimal_clusters can take with the way the selector returned them
Selections(n) ==
    {[k |-> k, selection |-> "returned"] : k \in ReturnedCounts(n)}
    \cup {[k |-> k, selection |-> "fallback"] : k \in FallbackCounts(n)}

\* _cluster_with_legal_context: "if optimal_clusters <= 1: return [entities]"
OneCluster ==
    /\ pc = "similarity"
    /\ \E s \in Selections(Len(structure_cluster)) :
           /\ s.k <= 1
           /\ NextGroup(<<structure_cluster>>, Outcome("one_cluster", s.selection))

\* _cluster_with_legal_context: KMeans labels the records, one cluster per label
KMeansClusters ==
    /\ pc = "similarity"
    /\ \E s \in Selections(Len(structure_cluster)) :
           /\ s.k > 1
           /\ \E cluster_labels \in [1..Len(structure_cluster) -> 0..(s.k - 1)] :
                  NextGroup(GroupByLabel(structure_cluster, cluster_labels, 1,
                                         <<>>, <<>>),
                            Outcome("kmeans", s.selection))

\* _cluster_with_legal_context: KMeans raises
KMeansRaises ==
    /\ pc = "similarity"
    /\ \E s \in Selections(Len(structure_cluster)) :
           /\ s.k > 1
           /\ NextGroup(<<structure_cluster>>, Outcome("raised", s.selection))

\* perform_clustering: "return final_clusters"
ReturnClusters ==
    /\ pc = "groups"
    /\ group > Len(structure_clusters)
    /\ pc' = "clustered"
    /\ UNCHANGED <<clusterVars, notClusterVars>>

NextCluster ==
    \/ FewEntities
    \/ perform_clustering
    \/ SmallGroup
    \/ EmbeddingFound
    \/ EmbeddingRaises
    \/ SingleRecord
    \/ ComputeSimilarity
    \/ SimilarityRaises
    \/ OneCluster
    \/ KMeansClusters
    \/ KMeansRaises
    \/ ReturnClusters

SpecCluster == Init /\ [][NextCluster]_vars

-----------------------------------------------------------------------------
(* _cluster_by_legal_structure on the records of a parsed document *)

\* a code of law in outline: a title, a part of two chapters, an article in
\* each, two clauses in the first article and one in the second
CodeSkeleton ==
    << TextLine, BlankLine, PhanLine, ChuongLine, Dieu1Line, KhoanLine, Khoan2Line,
       Chuong2Line, Dieu2Line, KhoanLine >>

\* the lines of full at the positions S, in order
RECURSIVE Pick(_, _)
Pick(full, S) ==
    IF S = {} THEN <<>>
    ELSE LET first == CHOOSE x \in S : \A y \in S : x <= y
         IN <<full[first]>> \o Pick(full, S \ {first})

\* the texts of 1..n lines that the outline gives when lines are left out
StructureTexts(n) ==
    {Pick(CodeSkeleton, S) :
        S \in {T \in SUBSET (1..Len(CodeSkeleton)) : Cardinality(T) \in 1..n}}

\* parse_document on such a text
parse_document_for_clustering ==
    /\ pc = "idle"
    /\ \E t \in StructureTexts(MaxStructureLines) : FreshCall(t, "doc-a")
    /\ UNCHANGED <<history, notParseVars>>

\* the record extracted from a provision: _extract_from_provision passes the
\* provision's id and level on to every LegalEntity
EntityOf(provision) ==
    [entity_name |-> "e", level |-> provision.level, source_id |-> provision.id]

\* the records of the parsed document, and one whose source is no provision
ParsedEntityPool ==
    {EntityOf(provisions[k]) : k \in 1..Len(provisions)}
    \cup {[entity_name |-> "e", level |-> "khoan", source_id |-> "nowhere"]}

\* _cluster_by_legal_structure(entities, provisions) with records of the parsed
\* document and its provisions, or no provisions ("provisions = None")
cluster_parsed_document ==
    /\ pc = "done"
    /\ \E ents \in UNION {[1..n -> ParsedEntityPool] : n \in 0..MaxRecords},
          provs \in {provisions, <<>>} :
           /\ entities' = ents
           /\ legal_provisions' = provs
           /\ structure_clusters' = cluster_by_legal_structure(ents, provs)
    /\ pc' = "structure"
    /\ UNCHANGED <<min_cluster_size, group, embeddings, final_clusters, outcomes,
                   notClusterVars>>

NextStructure ==
    \/ parse_document_for_clustering
    \/ SkipBlankLine
    \/ MarkerLine
    \/ BodyLine
    \/ EndOfInput
    \/ BuildHierarchyStep
    \/ Return
    \/ cluster_parsed_document

SpecStructure == Init /\ [][NextStructure]_vars

-----------------------------------------------------------------------------
(* The similarity matrices of _cluster_with_legal_context *)

\* the floats of the matrices are counted in units of 1/Scale, which the
\* weights, the path ratios and the cosines of the vectors below divide
Scale == 6000

\* provisions with cross_references, as the schema allows them: an article
\* that refers to itself and to the other one
CrossReferencedProvisions ==
    << [id |-> "chuong-I", hierarchy_path |-> <<"chuong-I">>,
        cross_references |-> <<>>],
       [id |-> "dieu-1", hierarchy_path |-> <<"chuong-I", "dieu-1">>,
        cross_references |-> <<"dieu-1", "dieu-2">>],
       [id |-> "dieu-2", hierarchy_path |-> <<"chuong-I", "dieu-2">>,
        cross_references |-> <<>>],
       [id |-> "khoan-1", hierarchy_path |-> <<"chuong-I", "dieu-1", "khoan-1">>,
        cross_references |-> <<>>] >>

\* the records of a group: of two articles, of a clause, and one of an unknown
\* level whose source is no provision
SimilarityEntityPool ==
    { [entity_name |-> "a", entity_type |-> "legal_concept",
       level |-> "dieu", source_id |-> "dieu-1"],
      [entity_name |-> "b", entity_type |-> "legal_concept",
       level |-> "dieu", source_id |-> "dieu-2"],
      [entity_name |-> "c", entity_type |-> "legal_entity",
       level |-> "khoan", source_id |-> "khoan-1"],
      [entity_name |-> "d", entity_type |-> "legal_procedure",
       level |-> "unknown", source_id |-> "nowhere"] }

\* the vectors the embedding capability returns
Vectors == {<<0, 0>>, <<1, 0>>, <<0, 1>>, <<0 - 1, 0>>, <<3, 4>>}

\* self.level_weights.get(LegalLevel(level), 1.0) if level is a LegalLevel else 1.0
LevelWeight(level) ==
    CASE level = "phan"   -> 1
      [] level = "chuong" -> 2
      [] level = "muc"    -> 3
      [] level = "dieu"   -> 4
      [] level = "khoan"  -> 5
      [] OTHER            -> 1

\* the length of the common prefix of two paths, from position k on
RECURSIVE CommonLength(_, _, _)
CommonLength(path1, path2, k) ==
    IF k <= Len(path1) /\ k <= Len(path2) /\ path1[k] = path2[k]
    THEN 1 + CommonLength(path1, path2, k + 1)
    ELSE 0

\* _calculate_hierarchy_path_similarity
hierarchy_path_similarity(path1, path2) ==
    IF path1 = <<>> \/ path2 = <<>> THEN 0
    ELSE LET max_length == IF Len(path1) >= Len(path2) THEN Len(path1) ELSE Len(path2)
         IN (Scale * CommonLength(path1, path2, 1)) \div max_length

\* _has_cross_reference_connection
has_cross_reference_connection(prov1, prov2) ==
    \/ \E n \in 1..Len(prov1.cross_references) : prov1.cross_references[n] = prov2.id
    \/ \E n \in 1..Len(prov2.cross_references) : prov2.cross_references[n] = prov1.id

\* provision_lookup = {p.id: p for p in provisions}: the positions of the
\* provisions with the id, the last of which the dict keeps
LookupPositions(provs, id) == {k \in 1..Len(provs) : provs[k].id = id}
Lookup(provs, id) ==
    provs[CHOOSE k \in LookupPositions(provs, id) :
              \A other \in LookupPositions(provs, id) : other <= k]

\* _calculate_entity_legal_similarity without "min(similarity, 1.0)"
entity_legal_similarity_uncapped(entity1, entity2, provs) ==
    LET level_bonus ==
            IF entity1.level = entity2.level
            THEN (3 * Scale * LevelWeight(entity1.level)) \div 50
            ELSE 0
        found == /\ LookupPositions(provs, entity1.source_id) # {}
                 /\ LookupPositions(provs, entity2.source_id) # {}
        prov1 == Lookup(provs, entity1.source_id)
        prov2 == Lookup(provs, entity2.source_id)
        path_bonus ==
            IF found
            THEN (4 * hierarchy_path_similarity(prov1.hierarchy_path,
                                                prov2.hierarchy_path)) \div 10
            ELSE 0
        cross_bonus ==
            IF found /\ has_cross_reference_connection(prov1, prov2)
            THEN (2 * 15 * Scale) \div 100
            ELSE 0
        type_bonus ==
            IF entity1.entity_type = entity2.entity_type THEN Scale \div 10 ELSE 0
    IN level_bonus + path_bonus + cross_bonus + type_bonus

\* _calculate_entity_legal_similarity
entity_legal_similarity(entity1, entity2, provs) ==
    Min2(entity_legal_similarity_uncapped(entity1, entity2, provs), Scale)

\* _calculate_legal_similarity_matrix: np.eye(n), and the similarity of every
\* pair when there are provisions
legal_similarity_matrix(ents, provs) ==
    [a \in 1..Len(ents) |-> [b \in 1..Len(ents) |->
        IF a = b THEN Scale
        ELSE IF provs = <<>> THEN 0
        ELSE IF a < b THEN entity_legal_similarity(ents[a], ents[b], provs)
        ELSE entity_legal_similarity(ents[b], ents[a], provs)]]

\* np.dot of two vectors
RECURSIVE Dot(_, _)
Dot(v, w) == IF v = <<>> THEN 0 ELSE Head(v) * Head(w) + Dot(Tail(v), Tail(w))

\* np.linalg.norm of a vector whose norm is a whole number, 1 in the place of 0
Norm(v) ==
    LET length == CHOOSE r \in 0..Dot(v, v) : r * r = Dot(v, v)
    IN IF length = 0 THEN 1 ELSE length

\* _calculate_semantic_similarity: the cosines of the normalized vectors
semantic_similarity_matrix(vectors) ==
    [a \in 1..Len(vectors) |-> [b \in 1..Len(vectors) |->
        (Scale * Dot(vectors[a], vectors[b])) \div (Norm(vectors[a]) * Norm(vectors[b]))]]

\* 0.6 * semantic_similarity + 0.4 * legal_similarity
Combined(semantic, legal) ==
    [a \in DOMAIN semantic |-> [b \in DOMAIN semantic |->
        (6 * semantic[a][b] + 4 * legal[a][b]) \div 10]]

\* 1.0 - combined_similarity
Distance(combined) ==
    [a \in DOMAIN combined |-> [b \in DOMAIN combined |-> Scale - combined[a][b]]]

\* _cluster_with_legal_context on a group of two or more records with their
\* vectors: the matrices up to distance_matrix
ComputeMatrices ==
    /\ pc = "idle"
    /\ \E n \in 2..MaxGroupSize :
       \E ents \in [1..n -> SimilarityEntityPool], vectors \in [1..n -> Vectors],
          provs \in {<<>>, CrossReferencedProvisions} :
           LET legal    == legal_similarity_matrix(ents, provs)
               semantic == semantic_similarity_matrix(vectors)
           IN /\ entities' = ents
              /\ embeddings' = vectors
              /\ legal_provisions' = provs
              /\ legal_similarity' = legal
              /\ semantic_similarity' = semantic
              /\ combined_similarity' = Combined(semantic, legal)
              /\ distance_matrix' = Distance(Combined(semantic, legal))
    /\ pc' = "matrices"
    /\ UNCHANGED <<text, document_id, i, provisions, current_provision, content_buffer,
                   j, provision_data, hierarchy, parent_stack, history,
                   min_cluster_size, structure_clusters, group, final_clusters,
                   outcomes, selectVars, otherVars>>

NextSimilarity == ComputeMatrices

SpecSimilarity == Init /\ [][NextSimilarity]_vars

-----------------------------------------------------------------------------
(* Properties of the parsed document, continued *)

\* C6: the id level-number is unique within one parsed document.
C6_IdsUnique ==
    Parsed =>
        \A a \in 1..Len(provisions) : \A b \in 1..Len(provisions) :
            a # b => provisions[a].id # provisions[b].id

\* C7: the index has exactly one entry per provision, and the entry under p.id
\* records p's level, ordinal, parent_id and hierarchy_path.
C7_IndexMirrorsProvisions ==
    Parsed =>
        /\ Cardinality(DOMAIN Structure) = Len(provisions)
        /\ \A k \in 1..Len(provisions) :
               LET p == provisions[k]
                   e == Structure[p.id]
               IN /\ e.level = p.level
                  /\ e.number = p.number
                  /\ e.parent_id = p.parent_id
                  /\ e.hierarchy_path = p.hierarchy_path

\* the positions in the provision list where the id occurs
Positions(id) == {k \in 1..Len(provisions) : provisions[k].id = id}

\* C8: every provision with a parent is listed among the children of the entry
\* under its parent_id; every listed child is a provision whose parent_id is
\* that entry's id; children are listed in document order.
C8_ChildrenLists ==
    Parsed =>
        /\ \A k \in 1..Len(provisions) :
               provisions[k].parent_id # None =>
                   \E n \in DOMAIN Structure[provisions[k].parent_id].children :
                       Structure[provisions[k].parent_id].children[n] = provisions[k].id
        /\ \A id \in DOMAIN Structure :
               LET children == Structure[id].children IN
               /\ \A n \in DOMAIN children :
                      \E k \in Positions(children[n]) : provisions[k].parent_id = id
               /\ \A n \in DOMAIN children : \A m \in DOMAIN children :
                      n < m => \E a \in Positions(children[n]) :
                               \E b \in Positions(children[m]) : a < b

\* the positions of the marker lines of the text, in document order
MarkerPositions ==
    {k \in 1..Len(text) :
        Scanned[text[k]].line # <<>> /\ Scanned[text[k]].match.matched}

\* the position of the n-th marker line
RECURSIVE NthOf(_, _)
NthOf(S, n) ==
    LET least == CHOOSE k \in S : \A other \in S : k <= other
    IN IF n = 1 THEN least ELSE NthOf(S \ {least}, n - 1)

\* C9: the extractor returns one provision per marker line, in document order,
\* the k-th carrying level, ordinal and title of the k-th marker line and the
\* id level-ordinal; the last marker's provision is appended at end of input.
C9_OneProvisionPerMarker ==
    pc \in {"hierarchy", "done"} =>
        /\ Len(provisions) = Cardinality(MarkerPositions)
        /\ \A k \in 1..Len(provisions) :
               LET m == Scanned[text[NthOf(MarkerPositions, k)]].match
               IN /\ provisions[k].level = m.level
                  /\ provisions[k].number = m.number
                  /\ provisions[k].title = m.title
                  /\ provisions[k].id = m.level \o "-" \o m.number

\* the extractor has returned three provisions, the last for the last line
C9_Witness ==
    /\ pc = "hierarchy"
    /\ Len(provisions) >= 3
    /\ Len(text) \in MarkerPositions
    /\ \E k \in 1..Len(text) : k \notin MarkerPositions

\* body.split("\n")
RECURSIVE SplitLines(_, _)
SplitLines(body, line) ==
    IF body = <<>> THEN <<line>>
    ELSE IF Head(body) = "nl" THEN <<line>> \o SplitLines(Tail(body), <<>>)
    ELSE SplitLines(Tail(body), Append(line, Head(body)))

\* the stripped non-blank lines at positions from..to of the text
RECURSIVE NonBlankLines(_, _)
NonBlankLines(from, to) ==
    IF from > to THEN <<>>
    ELSE IF Scanned[text[from]].line = <<>> THEN NonBlankLines(from + 1, to)
    ELSE <<Scanned[text[from]].line>> \o NonBlankLines(from + 1, to)

\* C10: the body of the k-th provision is its marker line followed by exactly
\* the non-blank, non-marker lines (taken stripped) up to the next marker or
\* the end of input, in order; so each such line is in exactly one body, and
\* blank lines and the lines before the first marker are in none.
C10_BodyIsMarkerAndFollowingLines ==
    pc \in {"hierarchy", "done"} =>
        /\ Len(provisions) = Cardinality(MarkerPositions)
        /\ \A k \in 1..Len(provisions) :
               LET from == NthOf(MarkerPositions, k)
                   to   == IF k < Len(provisions)
                           THEN NthOf(MarkerPositions, k + 1) - 1 ELSE Len(text)
               IN SplitLines(provisions[k].content, <<>>) = NonBlankLines(from, to)

\* a text with a line of preamble and a body line between two markers
C10_Witness ==
    /\ pc = "hierarchy"
    /\ Len(provisions) = 2
    /\ 1 \notin MarkerPositions /\ Scanned[text[1]].line # <<>>
    /\ Len(SplitLines(provisions[1].content, <<>>)) = 2

\* a selector has returned
SelectorReturned ==
    pc \in {"elbow_few_samples", "elbow_few_candidates", "elbow_curvature",
            "elbow_fallback", "bic_few_samples", "bic_minimum", "bic_fallback"}

\* C4 as stated: for any number of samples and any max_clusters, both selectors
\* return k with 1 <= k <= max_clusters, on every path.
C4_SelectorInRangeForAnyMax ==
    SelectorReturned => 1 <= optimal_clusters /\ optimal_clusters <= max_clusters

\* C4, amended: for any number of samples and any max_clusters >= 1, both
\* selectors return k with 1 <= k <= max_clusters, on every path.
C4_SelectorInRange ==
    (SelectorReturned /\ max_clusters >= 1) =>
        1 <= optimal_clusters /\ optimal_clusters <= max_clusters

\* the except branch answered for a max_clusters below 3
C4_Witness ==
    /\ pc \in {"elbow_fallback", "bic_fallback"}
    /\ max_clusters >= 1
    /\ optimal_clusters = max_clusters
    /\ n_samples > 3

\* the number of times position k is listed in the clusters
RECURSIVE Occurrences(_, _)
Occurrences(clusters, k) ==
    IF clusters = <<>> THEN 0
    ELSE Cardinality({n \in 1..Len(Head(clusters)) : Head(clusters)[n] = k})
         + Occurrences(Tail(clusters), k)

\* C3: whatever the records, the provisions, the outcomes of the embedding
\* lookups and the labels of the clustering step, every input record is in
\* exactly one of the returned clusters.
C3_EveryRecordInOneCluster ==
    pc = "clustered" =>
        /\ \A k \in 1..Len(entities) : Occurrences(final_clusters, k) = 1
        /\ \A c \in 1..Len(final_clusters) : \A n \in 1..Len(final_clusters[c]) :
               final_clusters[c][n] \in 1..Len(entities)

\* a structural group of four records returned as two clusters that KMeans
\* interleaved
C3_Witness ==
    /\ pc = "clustered"
    /\ Len(entities) = 4
    /\ Len(structure_clusters) = 1
    /\ final_clusters = <<<<1, 3>>, <<2, 4>>>>

-----------------------------------------------------------------------------
(* Properties of the structural groups *)

Grouped == pc = "structure"

\* two records, by position, are in one group
SameGroup(a, b) ==
    \E g \in 1..Len(structure_clusters) :
        /\ \E n \in 1..Len(structure_clusters[g]) : structure_clusters[g][n] = a
        /\ \E n \in 1..Len(structure_clusters[g]) : structure_clusters[g][n] = b

\* the grouping key of a record as the rule states it
StatedKey(record) ==
    LET path == SourcePath(legal_provisions, record.source_id) IN
    CASE path = <<>> -> <<record.level>>
      [] path # <<>> /\ record.level = "khoan" /\ Len(path) > 1 ->
             SubSeq(path, 1, Len(path) - 1)
      [] path # <<>> /\ record.level = "dieu"
             /\ Len(path) > 2 ->
             SubSeq(path, 1, Len(path) - 2)
      [] OTHER -> IF Len(path) > 1 THEN SubSeq(path, 1, Len(path) - 1) ELSE path

\* C11: two records are in the same structural group exactly when their
\* grouping keys are equal, the key being the source path without its last
\* element for a Khoan record with a path longer than 1, without its last two
\* elements for a Dieu record with a path longer than 2, otherwise without its
\* last element (the full path if its length is at most 1), and the level tag
\* alone when no source provision or path is found.
C11_SameGroupIffSameKey ==
    Grouped =>
        \A a \in 1..Len(entities) : \A b \in 1..Len(entities) :
            SameGroup(a, b) <=> StatedKey(entities[a]) = StatedKey(entities[b])

\* a Chuong record and a Dieu record of a part are in one group, the Dieu's
\* path having lost two elements and the Chuong's one
C11_Witness ==
    /\ Grouped
    /\ Len(entities) = 2
    /\ legal_provisions # <<>>
    /\ entities[1].level = "chuong"
    /\ entities[2].level = "dieu"
    /\ Len(SourcePath(legal_provisions, entities[1].source_id)) = 2
    /\ Len(SourcePath(legal_provisions, entities[2].source_id)) = 3
    /\ structure_clusters = <<<<1, 2>>>>

\* no two provisions of the parsed document have the same id
DistinctIds ==
    \A a \in 1..Len(provisions) : \A b \in 1..Len(provisions) :
        provisions[a].id = provisions[b].id => a = b

\* the Chuong provisions on the path of the provision a record comes from
ChaptersAbove(record) ==
    LET path == SourcePath(provisions, record.source_id) IN
    {path[n] : n \in {m \in 1..Len(path) :
                         \E k \in 1..Len(provisions) :
                             /\ provisions[k].id = path[m]
                             /\ provisions[k].level = "chuong"}}

\* C12: with the provisions of a parsed document (ids all different), two
\* Dieu records whose source Dieu lie under a Chuong are in one structural
\* group only if it is the same Chuong, whichever of Phan and Muc are present.
C12_ArticlesOfOneGroupShareChapter ==
    (Grouped /\ legal_provisions = provisions /\ DistinctIds) =>
        \A a \in 1..Len(entities) : \A b \in 1..Len(entities) :
            (/\ entities[a].level = "dieu"
             /\ entities[b].level = "dieu"
             /\ ChaptersAbove(entities[a]) # {}
             /\ ChaptersAbove(entities[b]) # {}
             /\ SameGroup(a, b))
            => ChaptersAbove(entities[a]) = ChaptersAbove(entities[b])

\* every record is a Khoan record that comes from a Khoan provision which is a
\* child of the Dieu at position article
AllFromClausesOf(article) ==
    /\ provisions[article].level = "dieu"
    /\ \A a \in 1..Len(entities) :
           /\ entities[a].level = "khoan"
           /\ \E k \in 1..Len(provisions) :
                  /\ provisions[k].id = entities[a].source_id
                  /\ provisions[k].level = "khoan"
                  /\ provisions[k].hierarchy_path =
                         Append(provisions[article].hierarchy_path, provisions[k].id)

\* C13: when all the records given are Khoan records that come from Khoan
\* provisions which are children of one Dieu of the parsed document, the
\* structural grouping returns exactly one group.
C13_ClausesOfOneArticleFormOneGroup ==
    (/\ Grouped
     /\ legal_provisions = provisions
     /\ entities # <<>>
     /\ \E article \in 1..Len(provisions) : AllFromClausesOf(article))
    => Len(structure_clusters) = 1

-----------------------------------------------------------------------------
(* Properties of perform_clustering *)

\* the structure_cluster at position g left the loop because a lookup of
\* _get_entity_embeddings failed
LookupFailed(g) == outcomes[g].by = "no_embeddings"

\* the similarity clustering of _cluster_with_legal_context ran on it
SimilarityClustered(g) == outcomes[g].by \in {"one_cluster", "kmeans", "raised"}

\* the records of the structure_cluster at position g are all in returned clusters
StaysClustered(g) ==
    \A n \in 1..Len(structure_clusters[g]) :
        \E c \in 1..Len(final_clusters) : \E m \in 1..Len(final_clusters[c]) :
            final_clusters[c][m] = structure_clusters[g][n]

\* C14: when the lookup of one record's embedding fails, the record gets a zero
\* vector and the group is still similarity-clustered with the vectors of the
\* other records; the record stays in a returned cluster.
C14_FailedLookupStillClustersGroup ==
    \A g \in 1..Len(outcomes) :
        LookupFailed(g) => (SimilarityClustered(g) /\ StaysClustered(g))

\* this step ends the processing of the current structure_cluster with the outcome o
GroupLeaves(o) ==
    /\ Len(outcomes') = Len(outcomes) + 1
    /\ outcomes'[Len(outcomes')] = o

\* this step returns the current structure_cluster as one cluster and goes on
\* with the next one, leaving alone what the other groups are made from
KeptWholeAndLoopGoesOn ==
    /\ final_clusters' = Append(final_clusters, structure_cluster)
    /\ group' = group + 1
    /\ pc' = "groups"
    /\ UNCHANGED <<entities, legal_provisions, min_cluster_size, structure_clusters>>

\* C15 as stated: when the similarity computation, the cluster-count selection
\* or the clustering step fails for a structure_cluster, the group is returned
\* as one single cluster of all its records, nothing is raised and the loop
\* goes on with the other groups as they were.
C15_AnyFailureKeepsGroupWhole ==
    [][(\E o \in {Outcome(by, s) : by \in {"one_cluster", "kmeans", "raised"},
                                   s \in {"none", "returned", "fallback"}} :
            /\ o.by = "raised" \/ o.selection = "fallback"
            /\ GroupLeaves(o))
       => KeptWholeAndLoopGoesOn]_vars

\* C15: when the similarity computation or the clustering step (KMeans) fails
\* for a structure_cluster, the group is returned as one single cluster of all
\* its records, nothing is raised and the loop goes on with the other groups
\* as they were.
C15_RaisedKeepsGroupWhole ==
    [][(\E s \in {"none", "returned", "fallback"} : GroupLeaves(Outcome("raised", s)))
       => KeptWholeAndLoopGoesOn]_vars

\* a call has returned in which the first of several groups failed in the
\* similarity computation or in KMeans
C15_Witness ==
    /\ pc = "clustered"
    /\ Len(outcomes) >= 2
    /\ outcomes[1].by = "raised"
    /\ final_clusters[1] = structure_clusters[1]

\* the records of a list
RecordsOf(list) == {list[n] : n \in 1..Len(list)}

\* the counts the selector can return, by the number of records of the group
CountsBySize == [n \in 0..MaxEntities |-> OptimalClusterCounts(n)]

\* clusters is a list of clusters the loop body of perform_clustering can make
\* of the records members, judged by members and min_cluster_size alone: the
\* group whole, or, for a group that is large enough, its records dealt out in
\* their order to at most as many clusters as the selector can ask for
IsGroupResult(members, clusters) ==
    \/ clusters = <<members>>
    \/ /\ Len(members) >= min_cluster_size
       /\ Len(members) > 1
       /\ clusters # <<>>
       /\ \E k \in CountsBySize[Len(members)] : k > 1 /\ Len(clusters) <= k
       /\ \A c \in 1..Len(clusters) :
              /\ clusters[c] # <<>>
              /\ \A n \in 1..(Len(clusters[c]) - 1) : clusters[c][n] < clusters[c][n + 1]
       /\ \A c \in 1..(Len(clusters) - 1) : clusters[c][1] < clusters[c + 1][1]
       /\ \A c \in 1..Len(clusters) : \A d \in (c + 1)..Len(clusters) :
              RecordsOf(clusters[c]) \cap RecordsOf(clusters[d]) = {}
       /\ UNION {RecordsOf(clusters[c]) : c \in 1..Len(clusters)} = RecordsOf(members)

\* C16: whatever the other groups are, whatever became of them and wherever
\* the group stands in the order, the step that ends the processing of a
\* structure_cluster appends clusters made of that group's records alone, kept
\* whole exactly in the cases its own size and lookups decide, leaves the
\* clusters of the earlier groups and the inputs of the later ones as they
\* were, and hands the loop to the next group with no embeddings carried over.
C16_GroupClustersDependOnGroupOnly ==
    [][Len(outcomes') = Len(outcomes) + 1 =>
          LET members == structure_clusters[group]
              outcome == outcomes'[Len(outcomes')]
          IN /\ Len(final_clusters') >= Len(final_clusters)
             /\ SubSeq(final_clusters', 1, Len(final_clusters)) = final_clusters
             /\ IsGroupResult(members, SubSeq(final_clusters', Len(final_clusters) + 1,
                                              Len(final_clusters')))
             /\ (outcome.by = "small") <=> (Len(members) < min_cluster_size)
             /\ outcome.by = "no_embeddings" => Len(embeddings) < Len(members)
             /\ outcome.by \notin {"small", "no_embeddings"} =>
                    Len(embeddings) = Len(members)
             /\ outcome.by # "kmeans" => final_clusters' = Append(final_clusters, members)
             /\ Len(outcomes) = group - 1
             /\ group' = group + 1
             /\ embeddings' = <<>>
             /\ UNCHANGED <<entities, legal_provisions, min_cluster_size,
                            structure_clusters>>]_vars

\* a call has returned in which the first group lost its embeddings and the
\* second one went through the similarity clustering
C16_Witness ==
    /\ pc = "clustered"
    /\ Len(outcomes) = 2
    /\ outcomes[1].by = "no_embeddings"
    /\ outcomes[2].by = "one_cluster"
    /\ final_clusters = structure_clusters

\* C17: the similarity computation of a structure_cluster starts (and goes
\* through or raises) only when the lookup of every record of the group has
\* returned a vector, stored or generated on demand: it never runs on a part
\* of the embeddings.
C17_SimilarityAfterAllLookups ==
    [][(pc' = "similarity" \/ GroupLeaves(Outcome("raised", "none")))
       => /\ Len(embeddings) = Len(structure_clusters[group])
          /\ \A n \in 1..Len(embeddings) : embeddings[n] \in {"stored", "generated"}]_vars

\* the similarity matrices of a group of three have been computed, from a
\* stored vector and from vectors generated on demand
C17_Witness ==
    /\ pc = "similarity"
    /\ Len(structure_clusters[group]) = 3
    /\ embeddings = <<"generated", "stored", "generated">>

-----------------------------------------------------------------------------
(* Properties of the similarity matrices *)

\* every entry of a matrix lies in [0, 1]
InUnitInterval(matrix) ==
    \A a \in DOMAIN matrix : \A b \in DOMAIN matrix[a] :
        0 <= matrix[a][b] /\ matrix[a][b] <= Scale

\* C18: for every pair of records of a group the legal similarity lies in
\* [0, 1], the combined similarity 0.6 x semantic + 0.4 x legal lies in [0, 1]
\* and so does the distance 1 - combined.
C18_SimilaritiesInUnitInterval ==
    pc = "matrices" =>
        /\ InUnitInterval(legal_similarity)
        /\ InUnitInterval(combined_similarity)
        /\ InUnitInterval(distance_matrix)

-----------------------------------------------------------------------------
(* Properties of the matcher *)

\* the line starts with a letter, a separator and white space, and text follows
LetteredClauseLine(line) ==
    /\ Len(line) >= 4
    /\ line[1] = "a"
    /\ line[2] \in {")", "."}
    /\ IsSpace(line[3])
    /\ \E n \in 4..Len(line) : ~IsSpace(line[n])

\* C19: a line that starts with a lettered sub-ordinal and a separator ("a)
\* text") is recognized as a Khoan marker whose ordinal is the letter, as a
\* line that starts with a numeric ordinal ("1. text") is.
C19_LetteredClauseRecognized ==
    (Parsed /\ Len(text) = 1 /\ LetteredClauseLine(Strip(text[1]))) =>
        /\ Len(provisions) = 1
        /\ \A k \in 1..Len(provisions) :
               provisions[k].level = "khoan" /\ provisions[k].number = "a"

\* the positions among the first 10 lines of the text whose line is not
\* blank and is no marker
TitleCandidates ==
    {m \in 1..Min2(10, Len(text)) :
        Strip(text[m]) # <<>> /\ ~match_legal_pattern(Strip(text[m])).matched}

\* C20: the title of the returned document is the first line, among the first
\* 10 lines of the text, that is not blank and is no marker, and "Legal
\* Document" when there is none; the title is never a marker line.
C20_TitleIsFirstPlainLineOfTen ==
    Parsed =>
        LET title == history[Len(history)].title IN
        /\ TitleCandidates = {} => title = <<"Legal Document">>
        /\ TitleCandidates # {} =>
               \E m \in TitleCandidates :
                   /\ \A other \in TitleCandidates : m <= other
                   /\ title = Strip(text[m])
        /\ ~match_legal_pattern(title).matched

\* a text whose only body text is on line 11, after ten lines of markers, has
\* got the default title
C20_Witness ==
    /\ Parsed
    /\ Len(text) = 11
    /\ text[11] = TextLine
    /\ \A m \in 1..10 : text[m] = Dieu1Line
    /\ TitleCandidates = {}
    /\ history[1].title = <<"Legal Document">>

-----------------------------------------------------------------------------
(* get_cluster_summary *)

\* the most clusters given to get_cluster_summary
MaxSummaryClusters == 2

\* the most records of one of those clusters
MaxSummaryClusterSize == 2

\* what stands for a key a dict does not have
Missing == "(missing)"

\* the records get_cluster_summary is given: dicts with or without the keys
\* "level" and "entity_type"
SummaryEntityPool ==
    {[level |-> "dieu", entity_type |-> "legal_concept"],
     [level |-> "khoan", entity_type |-> Missing],
     [level |-> Missing, entity_type |-> "legal_entity"],
     [level |-> "unknown", entity_type |-> "legal_concept"]}

\* the lists of at most n elements of S
ListsUpTo(S, n) == UNION {[1..k -> S] : k \in 0..n}

\* the lists of clusters get_cluster_summary is given, empty clusters included
SummaryInputs ==
    ListsUpTo(ListsUpTo(SummaryEntityPool, MaxSummaryClusterSize), MaxSummaryClusters)

\* entity.get(key, "unknown")
Get(value) == IF value = Missing THEN "unknown" ELSE value

\* a table that counts a tag once however often it comes
IncrementOnce(distribution, tag) == DictPut(distribution, tag, 1)

\* distribution[tag] += 1 on a defaultdict(int)
Increment(distribution, tag) ==
    DictPut(distribution, tag,
            IF tag \in DOMAIN distribution THEN distribution[tag] + 1 ELSE 1)

\* "for entity in cluster" of get_cluster_summary
RECURSIVE CountEntities(_, _)
CountEntities(cluster, d) ==
    IF cluster = <<>> THEN d
    ELSE CountEntities(Tail(cluster),
             [level_distribution |->
                  Increment(d.level_distribution, Get(Head(cluster).level)),
              type_distribution |->
                  Increment(d.type_distribution, Get(Head(cluster).entity_type))])

\* "for cluster in clusters" of get_cluster_summary
RECURSIVE CountClusters(_, _)
CountClusters(cs, d) ==
    IF cs = <<>> THEN d ELSE CountClusters(Tail(cs), CountEntities(Head(cs), d))

\* sum(len(cluster) for cluster in clusters)
RECURSIVE SumOfLengths(_)
SumOfLengths(cs) == IF cs = <<>> THEN 0 ELSE Len(Head(cs)) + SumOfLengths(Tail(cs))

\* min(len(c) for c in clusters) of a list that is not empty
RECURSIVE MinOfLengths(_)
MinOfLengths(cs) ==
    IF Len(cs) = 1 THEN Len(cs[1])
    ELSE LET rest == MinOfLengths(Tail(cs))
         IN IF Len(Head(cs)) <= rest THEN Len(Head(cs)) ELSE rest

\* max(len(c) for c in clusters) of a list that is not empty
RECURSIVE MaxOfLengths(_)
MaxOfLengths(cs) ==
    IF Len(cs) = 1 THEN Len(cs[1])
    ELSE LET rest == MaxOfLengths(Tail(cs))
         IN IF Len(Head(cs)) >= rest THEN Len(Head(cs)) ELSE rest

\* a quotient of two integers, kept as the two integers
Quotient(a, b) == [num |-> a, den |-> b]

\* the dict get_cluster_summary returns
ClusterSummary(cs) ==
    LET total_entities == SumOfLengths(cs)
        counted == CountClusters(cs, [level_distribution |-> <<>>,
                                      type_distribution |-> <<>>])
    IN [returned |-> TRUE,
        total_clusters |-> Len(cs),
        total_entities |-> total_entities,
        avg_cluster_size |-> IF cs # <<>> THEN Quotient(total_entities, Len(cs))
                             ELSE Quotient(0, 1),
        min_cluster_size |-> IF cs # <<>> THEN MinOfLengths(cs) ELSE 0,
        max_cluster_size |-> IF cs # <<>> THEN MaxOfLengths(cs) ELSE 0,
        level_distribution |-> counted.level_distribution,
        type_distribution |-> counted.type_distribution]

\* what the operations that stand apart do not touch
notOtherVars == <<text, document_id, i, provisions, current_provision,
                  content_buffer, j, provision_data, hierarchy, parent_stack,
                  history, clusterVars, selectVars, matrixVars>>

\* a caller hands a list of clusters to get_cluster_summary
get_cluster_summary_called ==
    /\ pc = "idle"
    /\ \E cs \in SummaryInputs : summary_clusters' = cs
    /\ pc' = "summary"
    /\ UNCHANGED <<summary, chunkVars, llmVars, notOtherVars>>

\* get_cluster_summary, from its first line to its return
get_cluster_summary ==
    /\ pc = "summary"
    /\ summary' = ClusterSummary(summary_clusters)
    /\ pc' = "summarized"
    /\ UNCHANGED <<summary_clusters, chunkVars, llmVars, notOtherVars>>

NextSummary ==
    \/ get_cluster_summary_called
    \/ get_cluster_summary

SpecSummary == Init /\ [][NextSummary]_vars

\* the sum of the counts of a frequency table
RECURSIVE SumOfCounts(_)
SumOfCounts(table) ==
    IF DOMAIN table = {} THEN 0
    ELSE LET tag == CHOOSE t \in DOMAIN table : TRUE
         IN table[tag] + SumOfCounts([t \in DOMAIN table \ {tag} |-> table[t]])

\* the records of a list of clusters, by cluster and place
Places(cs) == {<<c, n>> \in (1..Len(cs)) \X (1..MaxSummaryClusterSize) : n <= Len(cs[c])}

\* what a returned summary says of the clusters it was made of
SummaryAgrees ==
    /\ summary.total_clusters = Len(summary_clusters)
    /\ summary.total_entities = Cardinality(Places(summary_clusters))
    /\ SumOfCounts(summary.level_distribution) = summary.total_entities
    /\ SumOfCounts(summary.type_distribution) = summary.total_entities
    /\ summary.min_cluster_size <= summary.max_cluster_size
    /\ summary_clusters = <<>> =>
           /\ summary.avg_cluster_size.num = 0
           /\ summary.min_cluster_size = 0
           /\ summary.max_cluster_size = 0

\* C21: get_cluster_summary returns total_clusters equal to the number of
\* clusters and total_entities equal to the number of records in them, which
\* is also the sum of the counts of the level table and of the type table;
\* the minimum size is at most the maximum; on an empty list average, minimum
\* and maximum are 0; and the list of clusters is after the call what it was
\* before it.
C21_SummaryAgreesAndClustersUnchanged ==
    [][pc = "summary" =>
          /\ summary_clusters' = summary_clusters
          /\ summary'.returned
          /\ SummaryAgrees']_vars

\* a summary was returned for a cluster of one record and a cluster of two, in
\* which a record without level and a record of level "unknown" are counted
\* under the same tag
C21_Witness ==
    /\ pc = "summarized"
    /\ summary.returned
    /\ Len(summary_clusters) = 2
    /\ Len(summary_clusters[1]) = 1
    /\ Len(summary_clusters[2]) = 2
    /\ summary.total_entities = 3
    /\ "unknown" \in DOMAIN summary.level_distribution
    /\ summary.level_distribution["unknown"] = 2
    /\ summary.min_cluster_size = 1
    /\ summary.max_cluster_size = 2

-----------------------------------------------------------------------------
(* The stack pass of _build_hierarchy against the rule it implements *)

\* the provisions _build_hierarchy has processed so far
Processed == IF pc \in {"hierarchy", "done"} THEN 1..j ELSE {}

\* the earlier provisions of a strictly shallower level than provision k
ShallowerBefore(k) ==
    {m \in 1..(k - 1) :
        LevelIndex(provisions[m].level) < LevelIndex(provisions[k].level)}

\* the latest of them in document order, 0 when there is none
LatestShallowerBefore(k) ==
    IF ShallowerBefore(k) = {} THEN 0
    ELSE CHOOSE m \in ShallowerBefore(k) : \A n \in ShallowerBefore(k) : n <= m

\* C22: for every provision the stack pass has processed, the parent it got
\* is the latest earlier provision of a strictly shallower level, whatever
\* levels lie between the two, its path is that provision's path followed by
\* its own id, and it is a root, with a path of its own id alone, exactly
\* when no earlier provision is strictly shallower.
C22_StackPassFindsLatestShallower ==
    \A k \in Processed :
        LET m == LatestShallowerBefore(k) IN
        /\ (provisions[k].parent_id = None) <=> (m = 0)
        /\ m = 0 => provisions[k].hierarchy_path = <<provisions[k].id>>
        /\ m # 0 =>
               /\ provisions[k].parent_id = provisions[m].id
               /\ provisions[k].hierarchy_path =
                      Append(provisions[m].hierarchy_path, provisions[k].id)

\* a parsed document of a Muc, a Dieu, a Khoan and a second Dieu: the first
\* Dieu follows the Muc with no level between them missing or present, the
\* second one gets the Muc as parent after the Khoan and the first Dieu have
\* left the stack
C22_Witness ==
    /\ Parsed
    /\ Len(provisions) = 4
    /\ provisions[1].level = "muc"
    /\ provisions[1].parent_id = None
    /\ provisions[2].level = "dieu"
    /\ provisions[2].hierarchy_path = <<provisions[1].id, provisions[2].id>>
    /\ provisions[3].level = "khoan"
    /\ provisions[4].level = "dieu"
    /\ provisions[4].parent_id = provisions[1].id
    /\ provisions[4].hierarchy_path = <<provisions[1].id, provisions[4].id>>

-----------------------------------------------------------------------------
(* The register of _extract_provisions: current_provision *)

\* line k of the text is a marker line
IsMarkerLine(k) == Scan(text[k]).line # <<>> /\ Scan(text[k]).match.matched

\* the marker lines among the lines consumed so far
MarkersSeen == {k \in 1..i : IsMarkerLine(k)}

\* a provision is open
Open == current_provision.id # None

\* what holds of the register after every line, and before the first one
RegisterCounts ==
    /\ i = 0 => ~Open /\ provisions = <<>>
    /\ Open <=> MarkersSeen # {}
    /\ Len(provisions) + (IF Open THEN 1 ELSE 0) = Cardinality(MarkersSeen)

\* C23: the register current_provision of _extract_provisions is either
\* empty or holds one open provision; it is empty when the loop starts, holds
\* a provision from the first marker line on and is not emptied again while
\* lines are read; a line that is blank or no marker changes neither the
\* register nor the list of emitted provisions; and after every line the
\* emitted provisions, plus one when a provision is open, are as many as the
\* marker lines read so far.
C23_RegisterOpensOnceAndCounts ==
    [][pc' = "extract" =>
          /\ RegisterCounts'
          /\ pc = "extract" =>
                 /\ i' = i + 1
                 /\ Open => Open'
                 /\ ~IsMarkerLine(i') =>
                        /\ current_provision' = current_provision
                        /\ provisions' = provisions
                 /\ IsMarkerLine(i') =>
                        /\ Open'
                        /\ current_provision'.level = Scan(text[i']).match.level
                        /\ Len(provisions') = Len(provisions) + (IF Open THEN 1 ELSE 0)]_vars

\* four lines are read: body text before any marker, a marker, a blank line
\* and a second marker; one provision is emitted and one is open
C23_Witness ==
    /\ pc = "extract"
    /\ i = 4
    /\ ~IsMarkerLine(1) /\ Scan(text[1]).line # <<>>
    /\ IsMarkerLine(2)
    /\ Scan(text[3]).line = <<>>
    /\ IsMarkerLine(4)
    /\ Len(provisions) = 1
    /\ Open

-----------------------------------------------------------------------------
(* What one step of _build_hierarchy changes of the provisions *)

\* provision k has the parent_id and the hierarchy_path the schema gave it
Unassigned(k) ==
    provisions[k].parent_id = None /\ provisions[k].hierarchy_path = <<>>

\* C24: while _build_hierarchy runs, a step changes the provision it
\* processes in parent_id and hierarchy_path only and gives it a path; that
\* provision had the defaults of both until then, as all the later ones still
\* have; every other provision, earlier or later, is after the step what it
\* was before; and the list keeps its length and its order.
C24_EachProvisionAssignedOnceAtItsStep ==
    [][pc = "hierarchy" =>
          /\ Len(provisions') = Len(provisions)
          /\ \A k \in 1..Len(provisions) :
                 k > j => Unassigned(k)
          /\ \A k \in 1..Len(provisions) :
                 IF j' = j + 1 /\ k = j'
                 THEN /\ provisions'[k] =
                             [provisions[k] EXCEPT
                                 !.parent_id = provisions'[k].parent_id,
                                 !.hierarchy_path = provisions'[k].hierarchy_path]
                      /\ provisions'[k].hierarchy_path # <<>>
                 ELSE provisions'[k] = provisions[k]]_vars

\* the pass has processed a third provision that has a parent with a path of
\* two ids, and a fourth provision is still to come
C24_Witness ==
    /\ pc = "hierarchy"
    /\ j = 3
    /\ Len(provisions) = 4
    /\ provisions[3].parent_id = provisions[2].id
    /\ provisions[2].parent_id = provisions[1].id
    /\ Len(provisions[2].hierarchy_path) = 2
    /\ Len(provisions[3].hierarchy_path) = 3
    /\ Unassigned(4)

-----------------------------------------------------------------------------
(* The ancestor stack of _build_hierarchy *)

\* the level of the record at place n of the stack
StackLevel(n) == LevelIndex(provision_data[parent_stack[n]].level)

\* C25: once _build_hierarchy has processed a provision, the levels of the
\* records on parent_stack strictly increase from bottom to top, so that the
\* stack holds at most five records, its top is the record of the provision
\* just processed, the index holds under the id of every record on the stack
\* that very record, and the record below the top, the parent, has the id of
\* the provision just processed as the last of its children.
C25_StackStrictlyDeeperAndIndexed ==
    (pc \in {"hierarchy", "done"} /\ j >= 1) =>
        LET depth == Len(parent_stack) IN
        /\ depth >= 1 /\ depth <= 5
        /\ \A n \in 1..(depth - 1) : StackLevel(n) < StackLevel(n + 1)
        /\ parent_stack[depth] = j
        /\ provision_data[j].id = provisions[j].id
        /\ \A n \in 1..depth :
               /\ provision_data[parent_stack[n]].id \in DOMAIN hierarchy
               /\ hierarchy[provision_data[parent_stack[n]].id] = parent_stack[n]
        /\ depth >= 2 =>
               LET parent == provision_data[parent_stack[depth - 1]] IN
               /\ provisions[j].parent_id = parent.id
               /\ parent.children # <<>>
               /\ parent.children[Len(parent.children)] = provisions[j].id

\* a document in which the ids of a Dieu and of its Khoan come twice: after
\* the fourth provision the stack holds the second Dieu and the second Khoan,
\* and the second Dieu has the child
C25_Witness ==
    /\ pc = "hierarchy"
    /\ j = 4
    /\ provisions[1].level = "dieu"
    /\ provisions[3].id = provisions[1].id
    /\ provisions[4].id = provisions[2].id
    /\ provisions[2].level = "khoan"
    /\ parent_stack = <<3, 4>>
    /\ provision_data[3].children = <<provisions[4].id>>

-----------------------------------------------------------------------------
(* The elbow of _get_optimal_clusters_from_distance *)

\* the candidate counts of the call: max_clusters after the cap by n_samples - 1
Candidates == IF n_samples - 1 < max_clusters THEN n_samples - 1 ELSE max_clusters

\* the discrete second difference of the inertias at k clusters
SecondDifference(k) == scores[k - 1] - 2 * scores[k] + scores[k + 1]

\* C26: called on at least 3 samples with at least 3 candidate counts, the
\* elbow strategy returns the smallest k of 2..max-1 at which the second
\* difference I(k-1) - 2*I(k) + I(k+1) of the inertias of k = 1..max is
\* largest, so neither 1 nor max; with at least 3 samples and fewer than 3
\* candidate counts it returns min(2, max); with fewer than 3 samples it
\* returns 1.  max is max_clusters after the cap by n_samples - 1.
C26_ElbowIsFirstLargestSecondDifference ==
    /\ pc = "elbow_curvature" =>
           /\ n_samples >= 3 /\ Candidates >= 3
           /\ Len(scores) = Candidates
           /\ optimal_clusters \in 2..(Candidates - 1)
           /\ \A k \in 2..(Candidates - 1) :
                  SecondDifference(k) <= SecondDifference(optimal_clusters)
           /\ \A k \in 2..(optimal_clusters - 1) :
                  SecondDifference(k) < SecondDifference(optimal_clusters)
           /\ optimal_clusters # 1 /\ optimal_clusters # Candidates
    /\ pc = "elbow_few_candidates" =>
           /\ n_samples >= 3 /\ Candidates < 3
           /\ optimal_clusters = (IF Candidates >= 2 THEN 2 ELSE Candidates)
    /\ pc = "elbow_few_samples" =>
           /\ n_samples < 3
           /\ optimal_clusters = 1

\* five candidate counts whose second difference is largest at 3 and at 4 and
\* smaller at 2: the strategy has returned 3
C26_Witness ==
    /\ pc = "elbow_curvature"
    /\ Candidates = 5
    /\ SecondDifference(2) < SecondDifference(3)
    /\ SecondDifference(3) = SecondDifference(4)
    /\ optimal_clusters = 3

-----------------------------------------------------------------------------
(* parse_document on texts that refer to provisions, and the legal similarity
   of records of the parsed provisions *)

\* the longest text with references that is parsed, in lines
MaxReferenceLines == 4

\* body text that names another provision
RefToDieu1Line  == <<"t", "sp", "Dieu", "sp", "1">>
RefToDieu2Line  == <<"t", "sp", "Dieu", "sp", "2">>
RefToChuongLine == <<"t", "sp", "CHUONG", "sp", "I">>

\* a chapter of two articles that refer to each other and to the chapter,
\* with an empty line between the articles
ReferenceSkeleton ==
    << ChuongLine, Dieu1Line, RefToDieu2Line, BlankLine, Dieu2Line, RefToDieu1Line,
       RefToChuongLine >>

\* the texts of 1..n lines that the chapter gives when lines are left out
ReferenceTexts(n) ==
    {Pick(ReferenceSkeleton, S) :
        S \in {T \in SUBSET (1..Len(ReferenceSkeleton)) : Cardinality(T) \in 1..n}}

\* parse_document on such a text
parse_document_with_references ==
    /\ pc = "idle"
    /\ \E t \in ReferenceTexts(MaxReferenceLines) : FreshCall(t, "doc-a")
    /\ UNCHANGED <<history, notParseVars>>

\* the records extracted from the provisions of the parsed document
ReferenceEntityPool ==
    {[entity_name |-> "e", entity_type |-> type, level |-> provisions[k].level,
      source_id |-> provisions[k].id] :
        k \in 1..Len(provisions), type \in {"legal_concept", "legal_entity"}}

\* _calculate_legal_similarity_matrix(entities, provisions) on records of the
\* parsed document and its provisions as parse_document returned them
legal_similarity_of_parsed ==
    /\ pc = "done"
    /\ \E n \in 2..MaxGroupSize : \E ents \in [1..n -> ReferenceEntityPool] :
           /\ entities' = ents
           /\ legal_provisions' = provisions
           /\ legal_similarity' = legal_similarity_matrix(ents, provisions)
    /\ pc' = "legal"
    /\ UNCHANGED <<text, document_id, i, provisions, current_provision, content_buffer,
                   j, provision_data, hierarchy, parent_stack, history,
                   min_cluster_size, structure_clusters, group, embeddings,
                   final_clusters, outcomes, semantic_similarity,
                   combined_similarity, distance_matrix, selectVars, otherVars>>

NextReferences ==
    \/ parse_document_with_references
    \/ SkipBlankLine
    \/ MarkerLine
    \/ BodyLine
    \/ EndOfInput
    \/ BuildHierarchyStep
    \/ Return
    \/ legal_similarity_of_parsed

SpecReferences == Init /\ [][NextReferences]_vars

\* the provisions with their cross_references emptied
WithoutReferences(provs) ==
    [k \in 1..Len(provs) |-> [provs[k] EXCEPT !.cross_references = <<>>]]

\* the provision the lookup finds for record a
SourceOf(a) == Lookup(legal_provisions, entities[a].source_id)

\* C27: every provision parse_document makes, open, emitted or returned, has an
\* empty cross_references list, whatever provisions its content names; and in
\* the legal similarity matrix of records whose sources are provisions of the
\* parsed document no pair of sources is connected by a cross-reference, so
\* that every entry is what it is without the cross-reference bonus.
C27_ParseLeavesCrossReferencesEmpty ==
    /\ \A k \in 1..Len(provisions) : provisions[k].cross_references = <<>>
    /\ Open => current_provision.cross_references = <<>>
    /\ \A d \in 1..Len(history) : \A k \in 1..Len(history[d].provisions) :
           history[d].provisions[k].cross_references = <<>>
    /\ pc = "legal" =>
           /\ legal_provisions = history[1].provisions
           /\ \A a \in 1..Len(entities) : \A b \in 1..Len(entities) :
                  ~has_cross_reference_connection(SourceOf(a), SourceOf(b))
           /\ legal_similarity =
                  legal_similarity_matrix(entities, WithoutReferences(legal_provisions))

\* the parsed document has an article whose content names Dieu 2 and an
\* article numbered 2, and the legal similarity of a record of each is computed
C27_Witness ==
    /\ pc = "legal"
    /\ Len(entities) = 2
    /\ entities[1].source_id # entities[2].source_id
    /\ SourceOf(1).level = "dieu" /\ SourceOf(2).level = "dieu"
    /\ SourceOf(2).number = "2"
    /\ \E n \in 1..Len(extract_cross_references(SourceOf(1).content)) :
           extract_cross_references(SourceOf(1).content)[n] = "2"
    /\ SourceOf(1).cross_references = <<>>
    /\ legal_similarity[1][2] > 0

\* C28: every cluster of the list perform_clustering returns has at least one
\* record, for every list of records, the empty one included, every
\* min_cluster_size and every outcome of the lookups and of the clustering.
C28_EveryReturnedClusterNonEmpty ==
    pc = "clustered" =>
        \A c \in 1..Len(final_clusters) : final_clusters[c] # <<>>

-----------------------------------------------------------------------------
(* LegalChunker._split_text_by_tokens *)

\* the most tokens of a text that is split
MaxTokens == 4

\* the largest max_chunk_tokens of a chunker
MaxChunkTokens == 2

\* the largest overlap_tokens of a chunker
MaxOverlapTokens == 2

\* the chunks after which the loop is followed no further
MaxChunks == 5

\* a token is a word or a full stop; the encoder gives a full stop a token of
\* its own, so that decoding and encoding keep the count of tokens
TextTokens == {"w", "."}

\* the token lists a text can encode to
TokenLists == UNION {[1..n -> TextTokens] : n \in 0..MaxTokens}

\* a slice bound in Python: counted from the end when negative, and kept
\* within the list
SliceBound(x, length) ==
    IF x < 0 THEN (IF length + x < 0 THEN 0 ELSE length + x)
    ELSE IF x > length THEN length ELSE x

\* tokens[a:b]
Slice(s, a, b) == SubSeq(s, SliceBound(a, Len(s)) + 1, SliceBound(b, Len(s)))

\* end_idx = min(start_idx + self.max_chunk_tokens, len(tokens))
end_idx == Min2(start_idx + max_chunk_tokens, Len(tokens))

\* chunk_tokens = tokens[start_idx:end_idx]
chunk_tokens == Slice(tokens, start_idx, end_idx)

\* the places of the full stops of the chunk
FullStops == {p \in 1..Len(chunk_tokens) : chunk_tokens[p] = "."}

\* good_tokens: the tokens of ".".join(sentences[:-1]) + ".", the chunk up to
\* its last full stop
good_tokens ==
    SubSeq(chunk_tokens, 1, CHOOSE p \in FullStops : \A q \in FullStops : q <= p)

\* what the operations other than the chunker's own leave alone
notChunkVars == <<summaryVars, llmVars, notOtherVars>>

\* _split_text_by_tokens is called on the tokens of a text by a chunker with
\* some max_chunk_tokens and overlap_tokens
split_text_by_tokens ==
    /\ pc = "idle"
    /\ tokens' \in TokenLists
    /\ max_chunk_tokens' \in 1..MaxChunkTokens
    /\ overlap_tokens' \in 0..MaxOverlapTokens
    /\ start_idx' = 0
    /\ chunks' = <<>>
    /\ pc' = "split"
    /\ UNCHANGED notChunkVars

\* one iteration of the loop: the chunk is cut after its last full stop
SentenceChunk ==
    /\ pc = "split"
    /\ Len(chunks) < MaxChunks
    /\ start_idx < Len(tokens)
    /\ end_idx < Len(tokens)
    /\ FullStops # {}
    /\ chunks' = Append(chunks, good_tokens)
    /\ start_idx' = start_idx + Len(good_tokens) - overlap_tokens
    /\ UNCHANGED <<pc, tokens, max_chunk_tokens, overlap_tokens, notChunkVars>>

\* one iteration of the loop: the chunk has no full stop and is cut at the limit
LimitChunk ==
    /\ pc = "split"
    /\ Len(chunks) < MaxChunks
    /\ start_idx < Len(tokens)
    /\ end_idx < Len(tokens)
    /\ FullStops = {}
    /\ chunks' = Append(chunks, chunk_tokens)
    /\ start_idx' = end_idx - overlap_tokens
    /\ UNCHANGED <<pc, tokens, max_chunk_tokens, overlap_tokens, notChunkVars>>

\* the last iteration of the loop: the rest of the tokens, and break
LastChunk ==
    /\ pc = "split"
    /\ start_idx < Len(tokens)
    /\ end_idx >= Len(tokens)
    /\ chunks' = Append(chunks, chunk_tokens)
    /\ pc' = "split_done"
    /\ UNCHANGED <<tokens, max_chunk_tokens, overlap_tokens, start_idx, notChunkVars>>

\* the loop is not entered: there are no tokens
NoChunk ==
    /\ pc = "split"
    /\ start_idx >= Len(tokens)
    /\ pc' = "split_done"
    /\ UNCHANGED <<chunkVars, notChunkVars>>

NextChunk ==
    \/ split_text_by_tokens
    \/ SentenceChunk
    \/ LimitChunk
    \/ LastChunk
    \/ NoChunk

SpecChunk == Init /\ [][NextChunk]_vars

\* C29: for every token list and every max_chunk_tokens and overlap_tokens,
\* an iteration of the loop of _split_text_by_tokens that is not the last one
\* leaves start_idx strictly larger than it found it, whether the chunk was
\* cut after a full stop or at the token limit, so that the end of the tokens
\* is reached.
C29_StartIndexIncreases ==
    [][(pc = "split" /\ pc' = "split") => start_idx' > start_idx]_vars

-----------------------------------------------------------------------------
(* LegalEntityExtractor._call_llm *)

\* max_retries of _call_llm
max_retries == 3

\* the prompts _call_llm is given
Prompts == {"prompt-a", "prompt-b"}

\* what response.choices[0].message.content can be
Contents == {"content-a", "content-b"}

\* str(e) of the exceptions the try block can raise: of completion, of the
\* configuration lookup, of the access to the response
Errors == {"timeout", "no api key", "no choices"}

\* f"Lỗi LiteLLM sau {max_retries} lần thử: {str(e)}"
ErrorMessage(e) == "Loi LiteLLM sau " \o ToString(max_retries) \o " lan thu: " \o e

\* what the operations other than _call_llm leave alone
notLlmVars == <<summaryVars, chunkVars, notOtherVars>>

\* "if retry_count == max_retries" answering one failure early
GaveUpAfterTwo(count) == count = max_retries - 1

\* "if retry_count == max_retries"
GaveUp(count) == count = max_retries

\* _call_llm is called and reaches the loop
call_llm ==
    /\ pc = "idle"
    /\ prompt' \in Prompts
    /\ retry_count' = 0
    /\ completions' = <<>>
    /\ sleeps' = 0
    /\ response' = ""
    /\ pc' = "llm_try"
    /\ UNCHANGED notLlmVars

\* an iteration whose try block ends with the return of the content
CompletionReturns ==
    /\ pc = "llm_try"
    /\ retry_count < max_retries
    /\ \E content \in Contents :
           /\ completions' = Append(completions, [ok |-> TRUE, value |-> content])
           /\ response' = content
    /\ pc' = "llm_done"
    /\ UNCHANGED <<prompt, retry_count, sleeps, notLlmVars>>

\* an iteration whose try block raises: the except block up to its return or
\* to the await of asyncio.sleep
CompletionRaises ==
    /\ pc = "llm_try"
    /\ retry_count < max_retries
    /\ \E e \in Errors :
           /\ completions' = Append(completions, [ok |-> FALSE, value |-> e])
           /\ retry_count' = retry_count + 1
           /\ IF GaveUp(retry_count + 1)
              THEN response' = ErrorMessage(e) /\ pc' = "llm_done"
              ELSE response' = response /\ pc' = "llm_sleep"
    /\ UNCHANGED <<prompt, sleeps, notLlmVars>>

\* asyncio.sleep(1) is over and the loop goes on
Sleep ==
    /\ pc = "llm_sleep"
    /\ sleeps' = sleeps + 1
    /\ pc' = "llm_try"
    /\ UNCHANGED <<prompt, retry_count, completions, response, notLlmVars>>

NextLlm ==
    \/ call_llm
    \/ CompletionReturns
    \/ CompletionRaises
    \/ Sleep

SpecLlm == Init /\ [][NextLlm]_vars

\* a call of completion returns or raises, and a sleep of one second ends
LiveSpecLlm ==
    /\ SpecLlm
    /\ WF_vars(CompletionReturns \/ CompletionRaises)
    /\ WF_vars(Sleep)

\* the attempts that failed
Failed == {k \in 1..Len(completions) : ~completions[k].ok}

\* what holds of the attempts at any time of a call
AttemptsInOrder ==
    /\ Len(completions) <= 3
    /\ \A k \in 1..(Len(completions) - 1) : k \in Failed
    /\ retry_count = Cardinality(Failed)
    /\ pc = "llm_try" => sleeps = Len(completions)
    /\ pc = "llm_sleep" => sleeps = Len(completions) - 1 /\ Len(completions) \in Failed
    /\ pc = "llm_done" =>
           /\ completions # <<>>
           /\ sleeps = Len(completions) - 1
           /\ LET last == completions[Len(completions)] IN
              IF last.ok THEN response = last.value
              ELSE /\ Len(completions) = 3
                   /\ response = "Loi LiteLLM sau 3 lan thu: " \o last.value

\* C30: _call_llm calls completion at most 3 times; it returns the content of
\* the first call that succeeds and calls no more; it sleeps once after each
\* failure that is followed by another call; after 3 failures in a row it
\* returns the error message with the text of the last exception; and every
\* call of _call_llm returns, whatever the calls of completion do.
C30_AtMostThreeAttemptsThenReturns ==
    /\ []AttemptsInOrder
    /\ (pc = "llm_try") ~> (pc = "llm_done")

\* two calls failed, each followed by a sleep, and the third returned a content
C30_Witness ==
    /\ pc = "llm_done"
    /\ Len(completions) = 3
    /\ Failed = {1, 2}
    /\ sleeps = 2
    /\ response = "content-b"

====
